---- MODULE Spec2Model ----
(***************************************************************************)
(* Model of the WebSocket bridge of the Enhanced Visual Basic language     *)
(* server (src/unnamed/part_003, the bridge with rate limiting, spawn      *)
(* timeout and Content-Length framing).                                    *)
(*                                                                         *)
(* Strings are sequences of one-character strings.  A byte stream is a     *)
(* sequence of byte tokens: an ASCII character is its own byte, and the    *)
(* two-byte character "é" is the byte pair <<"C3", "A9">>.  "FFFD" is the  *)
(* replacement character Buffer.toString() yields for a malformed byte.    *)
(***************************************************************************)
EXTENDS Integers, Sequences, FiniteSets, TLC

\* ---------------------------------------------------------------- bounds
\* The cap, the limit and the window are scaled down from the source's
\* MAX_CLIENTS = 10 (part_003:7), RATE_LIMIT_MAX_REQUESTS = 100 (part_003:9)
\* and RATE_LIMIT_WINDOW = 60000 ms (part_003:8); the code only compares
\* against them, so the scaled values reach the same branches.
MAX_CLIENTS == 2
RATE_LIMIT_MAX_REQUESTS == 2
RATE_LIMIT_WINDOW == 2
\* Message events of one session (SpecSession) and of all sessions together
\* (Spec), and frames a worker writes.
MaxRecv == 4
MaxGatewayRecv == 3
MaxOut == 1
\* Longest message text and number of frames/messages in the framing runs.
MaxLen == 2
MaxFrames == 2

NumClients == MAX_CLIENTS + 1
Clients == 1..NumClients
MaxTime == RATE_LIMIT_WINDOW + 1

\* ------------------------------------------------------- strings and bytes
Digits == <<"0", "1", "2", "3", "4", "5", "6", "7", "8", "9">>
IsDigit(ch) == \E i \in 1..10 : Digits[i] = ch
DigitVal(ch) == (CHOOSE i \in 1..10 : Digits[i] = ch) - 1

\* Number -> decimal string, as the template literal `${contentLength}` does.
RECURSIVE DecimalString(_)
DecimalString(n) ==
  IF n < 10 THEN <<Digits[n + 1]>>
  ELSE DecimalString(n \div 10) \o <<Digits[(n % 10) + 1]>>

\* parseInt(digits, 10) on a non-empty run of decimal digits.
RECURSIVE ParseInt(_)
ParseInt(ds) ==
  IF Len(ds) = 0 THEN 0
  ELSE 10 * ParseInt(SubSeq(ds, 1, Len(ds) - 1)) + DigitVal(ds[Len(ds)])

\* UTF-8 encoding of one character / of a string (stdin.write, Buffer.byteLength).
CharBytes(ch) == IF ch = "é" THEN <<"C3", "A9">>
                 ELSE IF ch = "FFFD" THEN <<"EF", "BF", "BD">>
                 ELSE <<ch>>

RECURSIVE Utf8Encode(_)
Utf8Encode(s) ==
  IF Len(s) = 0 THEN <<>> ELSE CharBytes(Head(s)) \o Utf8Encode(Tail(s))

\* Buffer.byteLength(message, 'utf8')
ByteLength(s) == Len(Utf8Encode(s))

IsAsciiByte(b) == b \notin {"C3", "A9", "EF", "BF", "BD"}

\* data.toString(): UTF-8 decoding of ONE chunk.  A lead byte whose
\* continuation is not in the chunk, and a continuation byte with no lead,
\* each decode to the replacement character.
RECURSIVE BufferToString(_)
BufferToString(bytes) ==
  IF Len(bytes) = 0 THEN <<>>
  ELSE IF IsAsciiByte(bytes[1]) THEN <<bytes[1]>> \o BufferToString(Tail(bytes))
  ELSE IF bytes[1] = "C3" /\ Len(bytes) >= 2 /\ bytes[2] = "A9"
       THEN <<"é">> \o BufferToString(SubSeq(bytes, 3, Len(bytes)))
  ELSE IF bytes[1] = "EF" /\ Len(bytes) >= 3 /\ bytes[2] = "BF" /\ bytes[3] = "BD"
       THEN <<"FFFD">> \o BufferToString(SubSeq(bytes, 4, Len(bytes)))
  ELSE <<"FFFD">> \o BufferToString(Tail(bytes))

HeaderPrefix ==
  <<"C", "o", "n", "t", "e", "n", "t", "-", "L", "e", "n", "g", "t", "h", ":", " ">>
HeaderEnd == <<"\r", "\n", "\r", "\n">>

\* `Content-Length: ${contentLength}\r\n\r\n`
HeaderFor(contentLength) == HeaderPrefix \o DecimalString(contentLength) \o HeaderEnd

\* socket -> worker framing: header + message, as one string (stdin.write
\* encodes it as UTF-8).
FrameMessage(message) == HeaderFor(ByteLength(message)) \o message

\* Length of the run of decimal digits of buf that starts at position p (1-based).
RECURSIVE DigitRun(_, _)
DigitRun(buf, p) ==
  IF p <= Len(buf) /\ IsDigit(buf[p]) THEN 1 + DigitRun(buf, p + 1) ELSE 0

\* Does /Content-Length: (\d+)\r\n\r\n/ match buf at offset i (0-based)?
\* \d+ is followed by \r, so the digit run it takes is the maximal one.
HeaderAt(buf, i) ==
  LET d == DigitRun(buf, i + 17) IN
    /\ i + 16 + d + 4 <= Len(buf)
    /\ SubSeq(buf, i + 1, i + 16) = HeaderPrefix
    /\ d >= 1
    /\ SubSeq(buf, i + 17 + d, i + 16 + d + 4) = HeaderEnd

HasHeader(buf) == \E i \in 0..(Len(buf) - 1) : HeaderAt(buf, i)

\* messageBuffer.match(...): the leftmost match; index is headerMatch.index,
\* digits is headerMatch[1], length is headerMatch[0].length.
HeaderMatch(buf) ==
  LET i == CHOOSE j \in 0..(Len(buf) - 1) :
             HeaderAt(buf, j) /\ \A k \in 0..(j - 1) : ~HeaderAt(buf, k)
      d == DigitRun(buf, i + 17)
  IN [index |-> i, digits |-> SubSeq(buf, i + 17, i + 16 + d), length |-> 16 + d + 4]

\* Is the frame whose header the match found complete in buf?  The code
\* compares the string length of the buffer with messageEnd.
FrameComplete(buf, messageEnd) == ~(Len(buf) < messageEnd)

\* The while (true) loop of the stdout handler on the buffer buf: the
\* messages it hands to socket.send (when open) and the buffer it leaves.
RECURSIVE DrainBuffer(_, _)
DrainBuffer(buf, open) ==
  IF ~HasHeader(buf) THEN [buffer |-> buf, out |-> <<>>]
  ELSE
    LET headerMatch == HeaderMatch(buf)
        contentLength == ParseInt(headerMatch.digits)
        messageStart == headerMatch.index + headerMatch.length
        messageEnd == messageStart + contentLength
    IN IF ~FrameComplete(buf, messageEnd) THEN [buffer |-> buf, out |-> <<>>]
       ELSE
         LET message == SubSeq(buf, messageStart + 1, messageEnd)
             rest == DrainBuffer(SubSeq(buf, messageEnd + 1, Len(buf)), open)
         IN [buffer |-> rest.buffer,
             out |-> (IF open THEN <<message>> ELSE <<>>) \o rest.out]

\* The stdout handler's work on one chunk for a session whose buffer is buf.
OnStdoutChunk(buf, chunk, open) == DrainBuffer(buf \o BufferToString(chunk), open)

\* ------------------------------------------------------------------ state
VARIABLES
  activeConnections, \* the Map: client id -> [messageCount, windowStart, messageBuffer]
  socket,            \* per client: [readyState, closeReason] of its ws.WebSocket
  lspProcess,        \* per client: [state, killed] of its cp.ChildProcess
  spawnTimeout,      \* per client: "none" | "armed" | "cleared" | "fired"
  stdin,             \* per client: the strings written to lspProcess.stdin, in order
  sent,              \* per client: the messages handed to socket.send, in order
  pipe,              \* per client: bytes the worker wrote to stdout, not yet read
  now,               \* Date.now()
  listening,         \* the servers accept connections (FALSE once shutdown ran)
  exited,            \* process.exit was called: the gateway process is gone
  graceOver,         \* the grace period that follows shutdown has run out
  \* history, written but never read by the handlers
  inbox,             \* per client: how many 'message' events its handler got
  accepted,          \* per client: the texts that passed the limiter and validation
  forwardedAt,       \* per client: Date.now() of each write to its worker's stdin
  wrote,             \* per client: the message texts its worker framed on stdout
  signals,           \* per client: the signals delivered to its worker
  cleanups,          \* per client: how often cleanupConnection got past its guard
  \* one worker (src/server.ts)
  workspaceIndex,    \* [symbols, fileSymbols]: the two Maps, as sequences of [key, value]
  documents,         \* the TextDocuments manager: uri -> text of the open documents
  disk,              \* the file system: path -> text, or NoFile
  scan,              \* the paths the running workspace scan has still to index
  reply,             \* the last message the worker sent: a query's result, or diagnostics
  currentConfig      \* let currentConfig: the effective configuration

workerVars == <<workspaceIndex, documents, disk, scan, reply, currentConfig>>

bridgeVars == <<activeConnections, socket, lspProcess, spawnTimeout, stdin, sent, pipe,
                now, listening, exited, graceOver, inbox, accepted, forwardedAt, wrote, signals, cleanups>>

vars == <<activeConnections, socket, lspProcess, spawnTimeout, stdin, sent, pipe,
          now, listening, exited, graceOver, inbox, accepted, forwardedAt, wrote, signals, cleanups,
          workerVars>>

Active == DOMAIN activeConnections

\* lspProcess.pid is set by cp.spawn when the process was created.
HasPid(p) == p.state \in {"starting", "running", "exited"}
\* The child exists and has not exited: kill() has a handle to signal.
IsAlive(p) == p.state \in {"starting", "running"}
\* The connection handler got as far as registering its handlers.
HasHandlers(c) == lspProcess[c].state # "none"

\* cp.spawn emits 'spawn' (on success) or 'error' (when the process could not
\* be created) from process.nextTick: before any timer or I/O callback runs.
TickPending == \E c \in Clients : lspProcess[c].state \in {"starting", "failed"}

\* socket.close(code, reason): acts on an OPEN socket only.
CloseSocket(s, reason) ==
  IF s.readyState = "OPEN" THEN [readyState |-> "CLOSING", closeReason |-> reason]
  ELSE s

\* Mutants of the capacity test: off by one, and never refusing.
AtCapacity_OffByOne(size) == size > MAX_CLIENTS
AtCapacity_Never(size) == FALSE

\* if (activeConnections.size >= MAX_CLIENTS)
AtCapacity(size) == size >= MAX_CLIENTS

\* Mutant of the window test: every message starts a new window.
WindowElapsed_Always(t, windowStart) == TRUE

\* if (now - connection.windowStart > RATE_LIMIT_WINDOW)
WindowElapsed(t, windowStart) == t - windowStart > RATE_LIMIT_WINDOW

\* Mutant of the limit test: the R-th message already counts as too many.
OverLimit_OffByOne(messageCount) == messageCount >= RATE_LIMIT_MAX_REQUESTS

\* if (connection.messageCount > RATE_LIMIT_MAX_REQUESTS)
OverLimit(messageCount) == messageCount > RATE_LIMIT_MAX_REQUESTS

\* Mutant of the validation: the method name is not looked at.
IsValidEnvelope_NoMethod(m) == m.json /\ m.jsonrpc

\* JSON.parse(message) succeeds (json, and the value has properties) and
\* parsed.jsonrpc and parsed.method are truthy.  A message is its text and
\* what JSON.parse makes of it.
IsValidEnvelope(m) == m.json /\ m.jsonrpc /\ m.method

\* if (lspProcess.stdin && !lspProcess.killed)
CanWrite(p) == p.state # "none" /\ ~p.killed

\* const connection = activeConnections.get(clientId); if (!connection) return;
\* (the message and the stdout handler)
Known(c, ac) == c \in DOMAIN ac

\* Mutants of the guard of cleanupConnection: always passing, never passing.
InActiveSet_Always(c, ac) == TRUE
InActiveSet_Never(c, ac) == FALSE

\* The same test at the head of cleanupConnection.
InActiveSet(c, ac) == c \in DOMAIN ac

\* Mutant of the removal: the whole Map is cleared.
Remove_All(ac, c) == [d \in {} |-> ac[d]]

\* Mutant of the removal: the session stays in the Map.
Remove_None(ac, c) == ac

\* activeConnections.delete(clientId)
Remove(ac, c) == [d \in (DOMAIN ac) \ {c} |-> ac[d]]

\* if (connection.process && !connection.process.killed)
ShouldKill(p) == ~p.killed

\* cleanupConnection(clientId) on the state (ac, so, pr, sg, cl): the state after it.
\* kill('SIGTERM') delivers the signal and sets killed only if the child is alive.
CleanupConnection(c, ac, so, pr, sg, cl) ==
  IF ~InActiveSet(c, ac) THEN [ac |-> ac, so |-> so, pr |-> pr, sg |-> sg, cl |-> cl]
  ELSE
    LET kill == ShouldKill(pr[c]) /\ IsAlive(pr[c]) IN
    [ac |-> Remove(ac, c),
     so |-> [so EXCEPT ![c] = CloseSocket(@, "Cleanup")],
     pr |-> IF kill THEN [pr EXCEPT ![c].killed = TRUE] ELSE pr,
     sg |-> IF kill THEN [sg EXCEPT ![c] = Append(@, "SIGTERM")] ELSE sg,
     cl |-> [cl EXCEPT ![c] = @ + 1]]

\* The end of a handler: cleanupConnection(c), reached with the sockets so
\* and the processes pr.
Teardown(c, so, pr) ==
  LET r == CleanupConnection(c, activeConnections, so, pr, signals, cleanups) IN
    /\ activeConnections' = r.ac
    /\ socket' = r.so
    /\ lspProcess' = r.pr
    /\ signals' = r.sg
    /\ cleanups' = r.cl

\* const defaultConfig
defaultConfig ==
  [indexing |-> [enabled |-> TRUE,
                 includeFiles |-> <<"**/*.vb", "**/*.vbs", "**/*.bas", "**/*.cls", "**/*.frm">>,
                 excludeDirectories |-> <<"node_modules", "bin", "obj", ".git">>],
   diagnostics |-> [enabled |-> TRUE, checkMissingTypes |-> TRUE,
                    checkUnusedVariables |-> TRUE, checkMissingEndStatements |-> TRUE]]

\* What the disk holds at a path where there is no file.
NoFile == << <<"ENOENT">> >>

\* The worker's state in the runs of the bridge, which leave it alone: a
\* server that was not initialized, with no file and no document.
NoWorker ==
  /\ workspaceIndex = [symbols |-> <<>>, fileSymbols |-> <<>>]
  /\ documents = [u \in {} |-> <<>>]
  /\ disk = [f \in {} |-> NoFile]
  /\ scan = [started |-> FALSE, todo |-> <<>>, log |-> <<>>]
  /\ reply = [query |-> "none"]
  /\ currentConfig = defaultConfig

\* --------------------------------------------------------------- actions
NoSocket == [readyState |-> "NONE", closeReason |-> ""]
NoProcess == [state |-> "none", killed |-> FALSE]
NewConnection == [messageCount |-> 0, windowStart |-> now, messageBuffer |-> <<>>]

\* Client ids are fresh: the next connection gets the next unused id.
IsNext(c) ==
  /\ socket[c].readyState = "NONE"
  /\ \A d \in Clients : d < c => socket[d].readyState # "NONE"

\* wss.on('connection'): outcome is what cp.spawn does: "ok" (process
\* created), "fail" (not created, 'error' follows), "throw" (it throws).
Connect(c, outcome) ==
  /\ ~exited
  /\ listening /\ ~TickPending
  /\ IsNext(c)
  /\ IF AtCapacity(Cardinality(Active))
     THEN /\ socket' = [socket EXCEPT ![c] =
                          [readyState |-> "CLOSING", closeReason |-> "Server capacity reached"]]
          /\ UNCHANGED <<activeConnections, lspProcess, spawnTimeout>>
     ELSE IF outcome = "throw"
     THEN \* catch: spawnTimeout is still null; cleanupConnection finds nothing
          /\ socket' = [socket EXCEPT ![c] =
                          [readyState |-> "CLOSING", closeReason |-> "Server error"]]
          /\ UNCHANGED <<activeConnections, lspProcess, spawnTimeout>>
     ELSE /\ socket' = [socket EXCEPT ![c] = [readyState |-> "OPEN", closeReason |-> ""]]
          /\ lspProcess' = [lspProcess EXCEPT ![c] =
               [state |-> IF outcome = "ok" THEN "starting" ELSE "failed", killed |-> FALSE]]
          /\ spawnTimeout' = [spawnTimeout EXCEPT ![c] = "armed"]
          /\ activeConnections' =
               [d \in Active \cup {c} |-> IF d = c THEN NewConnection ELSE activeConnections[d]]
  /\ UNCHANGED <<stdin, sent, pipe, now, listening, exited, graceOver, workerVars, inbox, accepted, forwardedAt, wrote, signals, cleanups>>

\* lspProcess.on('spawn')
WorkerSpawn(c) ==
  /\ ~exited
  /\ lspProcess[c].state = "starting"
  /\ lspProcess' = [lspProcess EXCEPT ![c].state = "running"]
  /\ spawnTimeout' = [spawnTimeout EXCEPT ![c] = IF @ = "armed" THEN "cleared" ELSE @]
  /\ UNCHANGED <<activeConnections, socket, stdin, sent, pipe, now, listening, exited, graceOver, workerVars,
                 inbox, accepted, forwardedAt, wrote, signals, cleanups>>

\* The spawnTimeout callback.
SpawnTimeout(c) ==
  /\ ~exited
  /\ ~TickPending
  /\ spawnTimeout[c] = "armed"
  /\ spawnTimeout' = [spawnTimeout EXCEPT ![c] = "fired"]
  /\ IF ~HasPid(lspProcess[c])
     THEN Teardown(c, [socket EXCEPT ![c] = CloseSocket(@, "Server initialization timeout")],
                   lspProcess)
     ELSE UNCHANGED <<activeConnections, socket, lspProcess, signals, cleanups>>
  /\ UNCHANGED <<stdin, sent, pipe, now, listening, exited, graceOver, workerVars, inbox, accepted, forwardedAt, wrote>>

\* socket.on('message')
ClientMessage(c, m) ==
  /\ ~exited
  /\ ~TickPending
  /\ HasHandlers(c)
  /\ socket[c].readyState \in {"OPEN", "CLOSING"}
  /\ inbox' = [inbox EXCEPT ![c] = @ + 1]
  /\ IF ~Known(c, activeConnections)
     THEN UNCHANGED <<activeConnections, socket, stdin, accepted, forwardedAt>>
     ELSE
       LET connection == activeConnections[c]
           elapsed == WindowElapsed(now, connection.windowStart)
           count == (IF elapsed THEN 0 ELSE connection.messageCount) + 1
           start == IF elapsed THEN now ELSE connection.windowStart
       IN /\ activeConnections' = [activeConnections EXCEPT
                                     ![c].messageCount = count, ![c].windowStart = start]
          /\ IF OverLimit(count)
             THEN /\ socket' = [socket EXCEPT ![c] = CloseSocket(@, "Rate limit exceeded")]
                  /\ UNCHANGED <<stdin, accepted, forwardedAt>>
             ELSE /\ UNCHANGED socket
                  /\ accepted' = IF IsValidEnvelope(m)
                                 THEN [accepted EXCEPT ![c] = Append(@, m.text)]
                                 ELSE accepted
                  /\ IF IsValidEnvelope(m) /\ CanWrite(lspProcess[c])
                     THEN /\ stdin' = [stdin EXCEPT ![c] = Append(@, FrameMessage(m.text))]
                          /\ forwardedAt' = [forwardedAt EXCEPT ![c] = Append(@, now)]
                     ELSE UNCHANGED <<stdin, forwardedAt>>
  /\ UNCHANGED <<lspProcess, spawnTimeout, sent, pipe, now, listening, exited, graceOver, workerVars, wrote,
                 signals, cleanups>>

\* The worker writes one framed message to its stdout (Content-Length
\* counts bytes, as the LSP base protocol prescribes).
WorkerWrite(c, text) ==
  /\ ~TickPending
  /\ lspProcess[c].state = "running"
  /\ wrote' = [wrote EXCEPT ![c] = Append(@, text)]
  /\ pipe' = [pipe EXCEPT ![c] = @ \o Utf8Encode(FrameMessage(text))]
  /\ UNCHANGED <<activeConnections, socket, lspProcess, spawnTimeout, stdin, sent,
                 now, listening, exited, graceOver, workerVars, inbox, accepted, forwardedAt, signals, cleanups>>

\* lspProcess.stdout.on('data') with the first k bytes of the pipe as the chunk.
StdoutData(c, k) ==
  /\ ~exited
  /\ ~TickPending
  /\ k \in 1..Len(pipe[c])
  /\ pipe' = [pipe EXCEPT ![c] = SubSeq(@, k + 1, Len(@))]
  /\ IF ~Known(c, activeConnections)
     THEN UNCHANGED <<activeConnections, sent>>
     ELSE
       LET r == OnStdoutChunk(activeConnections[c].messageBuffer, SubSeq(pipe[c], 1, k),
                              socket[c].readyState = "OPEN")
       IN /\ activeConnections' = [activeConnections EXCEPT ![c].messageBuffer = r.buffer]
          /\ sent' = [sent EXCEPT ![c] = @ \o r.out]
  /\ UNCHANGED <<socket, lspProcess, spawnTimeout, stdin, now, listening, exited, graceOver, workerVars, inbox,
                 accepted, forwardedAt, wrote, signals, cleanups>>

\* lspProcess.on('exit'): the worker has terminated, by itself or on a signal.
WorkerExit(c) ==
  /\ ~exited
  /\ ~TickPending
  /\ lspProcess[c].state = "running"
  /\ Teardown(c, [socket EXCEPT ![c] = CloseSocket(@, "Server process exited")],
              [lspProcess EXCEPT ![c].state = "exited"])
  /\ UNCHANGED <<spawnTimeout, stdin, sent, pipe, now, listening, exited, graceOver, workerVars, inbox, accepted, forwardedAt, wrote>>

\* lspProcess.on('error'): the process could not be spawned, or a run-time
\* error of a running child (it could not be killed or be sent a message).
WorkerError(c) ==
  /\ ~exited
  /\ \/ lspProcess[c].state = "failed"
     \/ lspProcess[c].state = "running" /\ ~TickPending
  /\ Teardown(c, [socket EXCEPT ![c] = CloseSocket(@, "Server process error")],
              [lspProcess EXCEPT ![c].state = IF @ = "failed" THEN "errored" ELSE @])
  /\ UNCHANGED <<spawnTimeout, stdin, sent, pipe, now, listening, exited, graceOver, workerVars, inbox, accepted, forwardedAt, wrote>>

\* socket.on('close') (both listeners): the connection is gone, after a
\* closing handshake either side began or abruptly.  A socket that was
\* refused has no listener.
SocketClose(c) ==
  /\ ~exited
  /\ ~TickPending
  /\ socket[c].readyState \in {"OPEN", "CLOSING"}
  /\ IF HasHandlers(c)
     THEN Teardown(c, [socket EXCEPT ![c].readyState = "CLOSED"], lspProcess)
     ELSE /\ socket' = [socket EXCEPT ![c].readyState = "CLOSED"]
          /\ UNCHANGED <<activeConnections, lspProcess, signals, cleanups>>
  /\ UNCHANGED <<spawnTimeout, stdin, sent, pipe, now, listening, exited, graceOver, workerVars, inbox, accepted, forwardedAt, wrote>>

\* socket.on('error'): ws starts closing the socket before it emits 'error'.
SocketError(c) ==
  /\ ~exited
  /\ ~TickPending
  /\ HasHandlers(c)
  /\ socket[c].readyState \in {"OPEN", "CLOSING"}
  /\ Teardown(c, [socket EXCEPT ![c] = CloseSocket(@, "")], lspProcess)
  /\ UNCHANGED <<spawnTimeout, stdin, sent, pipe, now, listening, exited, graceOver, workerVars, inbox, accepted, forwardedAt, wrote>>

\* shutdown(): cleanupConnection for every entry of the Map, then the servers close.
RECURSIVE CleanupAll(_, _, _, _, _, _)
CleanupAll(ids, ac, so, pr, sg, cl) ==
  IF ids = {} THEN [ac |-> ac, so |-> so, pr |-> pr, sg |-> sg, cl |-> cl]
  ELSE LET c == CHOOSE d \in ids : \A e \in ids : d <= e
           r == CleanupConnection(c, ac, so, pr, sg, cl)
       IN CleanupAll(ids \ {c}, r.ac, r.so, r.pr, r.sg, r.cl)

Shutdown ==
  /\ ~exited
  /\ ~TickPending
  /\ listening
  /\ listening' = FALSE
  /\ LET r == CleanupAll(Active, activeConnections, socket, lspProcess, signals, cleanups) IN
       /\ activeConnections' = r.ac
       /\ socket' = r.so
       /\ lspProcess' = r.pr
       /\ signals' = r.sg
       /\ cleanups' = r.cl
  /\ UNCHANGED <<spawnTimeout, stdin, sent, pipe, now, exited, graceOver, workerVars, inbox,
                 accepted, forwardedAt, wrote>>

\* The callback of server.close(): every connection has ended, and
\* process.exit(0) ends the gateway.
ServerClosed ==
  /\ ~exited /\ ~TickPending
  /\ ~listening
  /\ \A c \in Clients : socket[c].readyState \in {"NONE", "CLOSED"}
  /\ exited' = TRUE
  /\ UNCHANGED <<activeConnections, socket, lspProcess, spawnTimeout, stdin, sent, pipe,
                 now, listening, graceOver, workerVars, inbox, accepted, forwardedAt, wrote, signals, cleanups>>

\* The grace period after shutdown runs out with the gateway still running:
\* a connection has not ended yet (its peer has not answered the closing
\* handshake, and the close timer of ws has not run out).  shutdown() sets
\* no timer, so no callback runs at this moment.
GraceEnds ==
  /\ ~exited /\ ~TickPending
  /\ ~listening
  /\ ~graceOver
  /\ \E c \in Clients : socket[c].readyState \in {"OPEN", "CLOSING"}
  /\ graceOver' = TRUE
  /\ UNCHANGED <<activeConnections, socket, lspProcess, spawnTimeout, stdin, sent, pipe,
                 now, listening, exited, workerVars, inbox, accepted, forwardedAt, wrote, signals,
                 cleanups>>

\* Time passes.
Tick ==
  /\ ~TickPending
  /\ now < MaxTime
  /\ now' = now + 1
  /\ UNCHANGED <<activeConnections, socket, lspProcess, spawnTimeout, stdin, sent, pipe,
                 listening, exited, graceOver, workerVars, inbox, accepted, forwardedAt, wrote, signals, cleanups>>

\* ------------------------------------------------------- specifications
Msg(text, json, jsonrpc, method) ==
  [text |-> text, json |-> json, jsonrpc |-> jsonrpc, method |-> method]

\* The gateway runs: every kind of envelope, one text.
GatewayMsgs == {Msg(<<"a">>, TRUE, TRUE, TRUE), Msg(<<"a">>, FALSE, FALSE, FALSE),
                Msg(<<"a">>, TRUE, FALSE, TRUE), Msg(<<"a">>, TRUE, TRUE, FALSE)}

Init ==
  /\ activeConnections = [c \in {} |-> 0]
  /\ socket = [c \in Clients |-> NoSocket]
  /\ lspProcess = [c \in Clients |-> NoProcess]
  /\ spawnTimeout = [c \in Clients |-> "none"]
  /\ stdin = [c \in Clients |-> <<>>]
  /\ sent = [c \in Clients |-> <<>>]
  /\ pipe = [c \in Clients |-> <<>>]
  /\ now = 0
  /\ listening = TRUE
  /\ exited = FALSE
  /\ graceOver = FALSE
  /\ NoWorker
  /\ inbox = [c \in Clients |-> 0]
  /\ accepted = [c \in Clients |-> <<>>]
  /\ forwardedAt = [c \in Clients |-> <<>>]
  /\ wrote = [c \in Clients |-> <<>>]
  /\ signals = [c \in Clients |-> <<>>]
  /\ cleanups = [c \in Clients |-> 0]

RECURSIVE SumOver(_, _)
SumOver(f, ids) ==
  IF ids = {} THEN 0
  ELSE LET c == CHOOSE d \in ids : TRUE IN f[c] + SumOver(f, ids \ {c})

\* Message events of all sessions together.
TotalRecv == SumOver(inbox, Clients)

\* The gateway: NumClients connection attempts against the cap, every
\* lifecycle event of every session, and MaxGatewayRecv message events in all.
Next ==
  \/ \E c \in Clients, o \in {"ok", "fail", "throw"} : Connect(c, o)
  \/ \E c \in Clients : WorkerSpawn(c)
  \/ \E c \in Clients : SpawnTimeout(c)
  \/ \E c \in Clients, m \in GatewayMsgs : TotalRecv < MaxGatewayRecv /\ ClientMessage(c, m)
  \/ \E c \in Clients : WorkerExit(c)
  \/ \E c \in Clients : WorkerError(c)
  \/ \E c \in Clients : SocketClose(c)
  \/ \E c \in Clients : SocketError(c)
  \/ Shutdown

Spec == Init /\ [][Next]_vars

SessionMsgs == GatewayMsgs \cup {Msg(<<"é">>, TRUE, TRUE, TRUE)}

\* One session in full: its messages against the clock, its worker's
\* output in one or two chunks, and every lifecycle event.
NextSession ==
  \/ \E o \in {"ok", "fail", "throw"} : Connect(1, o)
  \/ WorkerSpawn(1)
  \/ SpawnTimeout(1)
  \/ \E m \in SessionMsgs : inbox[1] < MaxRecv /\ ClientMessage(1, m)
  \/ Len(wrote[1]) < MaxOut /\ WorkerWrite(1, <<"a">>)
  \/ \E k \in {Len(HeaderFor(1)), Len(pipe[1])} : StdoutData(1, k)
  \/ WorkerExit(1)
  \/ WorkerError(1)
  \/ SocketClose(1)
  \/ SocketError(1)
  \/ Shutdown
  \/ ServerClosed
  \/ GraceEnds
  \/ Tick

SpecSession == Init /\ [][NextSession]_vars

\* What the runtime guarantees to happen: the next-tick 'spawn' and 'error'
\* events are delivered, an armed timer fires, and a socket that is closing
\* gets closed (ws destroys it when its close timer runs out), and the
\* callback of server.close() runs once every connection has ended.  Nothing
\* makes a client close an open socket or a worker exit.
SocketCloseCompletes(c) == socket[c].readyState = "CLOSING" /\ SocketClose(c)
SpawnErrorDelivered(c) == lspProcess[c].state = "failed" /\ WorkerError(c)

SessionFairness ==
  /\ WF_vars(WorkerSpawn(1))
  /\ WF_vars(SpawnErrorDelivered(1))
  /\ WF_vars(SpawnTimeout(1))
  /\ WF_vars(SocketCloseCompletes(1))
  /\ WF_vars(ServerClosed)

SpecSessionFair == Init /\ [][NextSession]_vars /\ SessionFairness

\* The framing of one open session: messages with multi-byte characters in
\* both directions, the worker's output cut into chunks at any byte.
RECURSIVE SeqsUpTo(_, _)
SeqsUpTo(S, n) ==
  IF n = 0 THEN {<<>>}
  ELSE LET shorter == SeqsUpTo(S, n - 1) IN
         shorter \cup {Append(t, x) : t \in shorter, x \in S}

FrameTexts == SeqsUpTo({"a", "é"}, MaxLen)
FrameMsgs == {Msg(t, TRUE, TRUE, TRUE) : t \in FrameTexts}
               \cup {Msg(<<"a">>, FALSE, FALSE, FALSE)}

InitFrame ==
  /\ activeConnections =
       [c \in {1} |-> [messageCount |-> 0, windowStart |-> 0, messageBuffer |-> <<>>]]
  /\ socket = [c \in Clients |-> IF c = 1 THEN [readyState |-> "OPEN", closeReason |-> ""]
                                 ELSE NoSocket]
  /\ lspProcess = [c \in Clients |-> IF c = 1 THEN [state |-> "running", killed |-> FALSE]
                                     ELSE NoProcess]
  /\ spawnTimeout = [c \in Clients |-> IF c = 1 THEN "cleared" ELSE "none"]
  /\ stdin = [c \in Clients |-> <<>>]
  /\ sent = [c \in Clients |-> <<>>]
  /\ pipe = [c \in Clients |-> <<>>]
  /\ now = 0
  /\ listening = TRUE
  /\ exited = FALSE
  /\ graceOver = FALSE
  /\ NoWorker
  /\ inbox = [c \in Clients |-> 0]
  /\ accepted = [c \in Clients |-> <<>>]
  /\ forwardedAt = [c \in Clients |-> <<>>]
  /\ wrote = [c \in Clients |-> <<>>]
  /\ signals = [c \in Clients |-> <<>>]
  /\ cleanups = [c \in Clients |-> 0]

NextFrame ==
  \/ \E m \in FrameMsgs : inbox[1] = 0 /\ ClientMessage(1, m)
  \/ \E t \in FrameTexts : Len(wrote[1]) < MaxFrames /\ WorkerWrite(1, t)
  \/ \E k \in 1..Len(pipe[1]) : StdoutData(1, k)

SpecFrame == InitFrame /\ [][NextFrame]_vars

\* ------------------------------------------------------------------ claims

\* C1 (Framing round-trip).  When the worker has framed exactly one message M
\* and all of its bytes were delivered, in whatever chunks, to the stdout
\* handler of an open session, the handler has forwarded exactly one message,
\* equal to M, and the session buffer is empty.
C1_FramingRoundTrip ==
  ( /\ Len(wrote[1]) = 1
    /\ pipe[1] = <<>>
    /\ 1 \in Active
    /\ socket[1].readyState = "OPEN" )
  => /\ sent[1] = <<wrote[1][1]>>
     /\ activeConnections[1].messageBuffer = <<>>

\* C2 (Session cap).  The active set never holds more than MAX_CLIENTS sessions.
C2_CapInvariant == Cardinality(Active) <= MAX_CLIENTS

\* The cap is reached and a further attempt has been refused.
C2_Witness ==
  /\ Cardinality(Active) = MAX_CLIENTS
  /\ \E c \in Clients : socket[c].closeReason = "Server capacity reached"

\* C3 (Refusal at capacity).  A connection that arrives while the active set
\* holds MAX_CLIENTS sessions is closed at once with the capacity reason, gets
\* no worker and no spawn timer, is not in the active set then or later, and
\* the step changes nothing of the existing sessions.
Refused(c) == socket[c].closeReason = "Server capacity reached"

C3_RefusalAtCapacity ==
  /\ [](\A c \in Clients :
          Refused(c) => /\ c \notin Active
                        /\ lspProcess[c] = NoProcess
                        /\ spawnTimeout[c] = "none"
                        /\ socket[c].readyState # "OPEN")
  /\ [][\A c \in Clients :
          ( /\ socket[c].readyState = "NONE"
            /\ socket'[c].readyState # "NONE"
            /\ Cardinality(Active) = MAX_CLIENTS )
          => /\ socket'[c] = [readyState |-> "CLOSING",
                              closeReason |-> "Server capacity reached"]
             /\ activeConnections' = activeConnections
             /\ lspProcess' = lspProcess
             /\ spawnTimeout' = spawnTimeout
             /\ \A d \in Clients \ {c} : socket'[d] = socket[d]
             /\ UNCHANGED <<stdin, sent, pipe, signals, cleanups>>]_vars

\* An attempt was refused while MAX_CLIENTS sessions stay open, one of them
\* having had a message forwarded to its worker.
C3_Witness ==
  /\ \E c \in Clients : Refused(c)
  /\ Cardinality(Active) = MAX_CLIENTS
  /\ \A d \in Active : socket[d].readyState = "OPEN"
  /\ \E d \in Active : Len(stdin[d]) > 0

\* C4 (Rate limiting).  For a message event of an active session: if it is
\* one of the first R of the current window the limiter lets it through (the
\* socket is left alone, the count goes up by one, a well-formed message is
\* written to the worker); if it is the (R+1)th of the window nothing is
\* written and the socket is closed with the rate-limit reason; if the window
\* has elapsed and the session is not over the limit, the count restarts at
\* one in a window that starts now and the message is let through.
WellFormed(m) == m.json /\ m.jsonrpc /\ m.method

C4_RateLimit ==
  [][\A c \in Clients, m \in SessionMsgs :
       (ClientMessage(c, m) /\ c \in Active) =>
         LET conn == activeConnections[c]
             within == now - conn.windowStart <= RATE_LIMIT_WINDOW
             forwarded == stdin'[c] = Append(stdin[c], FrameMessage(m.text))
         IN /\ (within /\ conn.messageCount < RATE_LIMIT_MAX_REQUESTS) =>
                 /\ socket'[c] = socket[c]
                 /\ c \in DOMAIN activeConnections'
                 /\ activeConnections'[c].messageCount = conn.messageCount + 1
                 /\ activeConnections'[c].windowStart = conn.windowStart
                 /\ WellFormed(m) => forwarded
            /\ (within /\ conn.messageCount = RATE_LIMIT_MAX_REQUESTS) =>
                 /\ stdin'[c] = stdin[c]
                 /\ socket'[c] = [readyState |-> "CLOSING",
                                  closeReason |-> "Rate limit exceeded"]
            /\ (~within /\ conn.messageCount <= RATE_LIMIT_MAX_REQUESTS) =>
                 /\ socket'[c] = socket[c]
                 /\ c \in DOMAIN activeConnections'
                 /\ activeConnections'[c].messageCount = 1
                 /\ activeConnections'[c].windowStart = now
                 /\ WellFormed(m) => forwarded]_vars

\* R messages of one window were written to the worker and the (R+1)th
\* closed the socket with the rate-limit reason.
C4_Witness ==
  \E c \in Active :
    /\ activeConnections[c].messageCount = RATE_LIMIT_MAX_REQUESTS + 1
    /\ Len(stdin[c]) = RATE_LIMIT_MAX_REQUESTS
    /\ socket[c] = [readyState |-> "CLOSING", closeReason |-> "Rate limit exceeded"]

\* C5 (Idempotent teardown).  Whatever terminal events reach a session, and
\* how often: cleanupConnection gets past its guard at most once for it, a
\* session it removed is not in the active set, its worker is sent SIGTERM at
\* most once, and a handler that calls cleanupConnection for a session
\* already removed changes nothing of the sessions (the active set, the
\* signals sent, the killed flags, the close reason sent on the socket).
TerminalHandler(c) ==
  \/ SocketClose(c)
  \/ SocketError(c)
  \/ WorkerExit(c)
  \/ WorkerError(c)
  \/ SpawnTimeout(c)
  \/ Shutdown

C5_TeardownIdempotent ==
  /\ [](\A c \in Clients :
          /\ cleanups[c] <= 1
          /\ Len(signals[c]) <= 1
          /\ cleanups[c] = 1 => c \notin Active)
  /\ [][\A c \in Clients :
          (cleanups[c] = 1 /\ TerminalHandler(c)) =>
             /\ activeConnections' = activeConnections
             /\ signals' = signals
             /\ cleanups' = cleanups
             /\ lspProcess'[c].killed = lspProcess[c].killed
             /\ socket'[c].closeReason = socket[c].closeReason
             /\ socket'[c].readyState \in {socket[c].readyState, "CLOSED"}
             /\ UNCHANGED <<stdin, sent, pipe>>]_vars

\* A session that both its socket's close and its worker's exit have torn
\* down, after the spawn timer was cleared: removed once, signalled once.
C5_Witness ==
  \E c \in Clients :
    /\ socket[c].readyState = "CLOSED"
    /\ lspProcess[c].state = "exited"
    /\ cleanups[c] = 1
    /\ signals[c] = <<"SIGTERM">>
    /\ ~listening

\* C6 (Teardown follows every terminal event).  Once a terminal event has
\* occurred for a session (its socket is no longer open, its worker has
\* exited or failed to start, or the gateway has shut down), the session is
\* eventually out of the active set with its socket closed and its worker
\* either signalled or not running.
TerminalSeen(c) ==
  /\ HasHandlers(c)
  /\ \/ socket[c].readyState # "OPEN"
     \/ lspProcess[c].state \in {"exited", "errored"}
     \/ ~listening

TornDown(c) ==
  /\ c \notin Active
  /\ socket[c].readyState = "CLOSED"
  /\ signals[c] # <<>> \/ ~IsAlive(lspProcess[c])

C6_TeardownFollows == \A c \in Clients : TerminalSeen(c) ~> TornDown(c)

\* A session torn down after it exceeded the rate limit.
C6_Witness ==
  \E c \in Clients : TornDown(c) /\ socket[c].closeReason = "Rate limit exceeded"

\* C7 (Escalation).  A worker that was sent the terminate signal eventually
\* has exited or is sent the forceful kill (SIGKILL) that ends it.
C7_WorkerTerminates ==
  \A c \in Clients :
    (signals[c] # <<>>) ~>
       \/ ~IsAlive(lspProcess[c])
       \/ \E i \in 1..Len(signals[c]) : signals[c][i] = "SIGKILL"

\* C8 (Spawn timeout).  When the spawn timer has expired on a worker that
\* never reported its start, the session is out of the active set and the
\* socket was closed with the initialization-timeout reason; when the worker
\* reported its start, the timer never fires and never closes the socket.
Started(c) == lspProcess[c].state \in {"running", "exited"}

C8_SpawnTimeout ==
  \A c \in Clients :
    /\ (spawnTimeout[c] = "fired" /\ ~Started(c)) =>
          /\ c \notin Active
          /\ socket[c].closeReason = "Server initialization timeout"
    /\ Started(c) =>
          /\ spawnTimeout[c] # "fired"
          /\ socket[c].closeReason # "Server initialization timeout"

\* C9 (Malformed envelopes), as stated: a malformed message of an active
\* session writes nothing to the worker, leaves the socket open and the
\* session in the active set.
Malformed(m) == ~m.json \/ ~m.jsonrpc \/ ~m.method

C9_Original ==
  [][\A c \in Clients, m \in SessionMsgs :
       (ClientMessage(c, m) /\ c \in Active /\ Malformed(m)) =>
          /\ stdin'[c] = stdin[c]
          /\ socket'[c].readyState = "OPEN"
          /\ c \in DOMAIN activeConnections']_vars

\* C9 (Malformed envelopes), amended: a malformed message that does not
\* exceed the rate limit writes nothing to the worker and leaves the socket
\* and the active set as they were; a later well-formed message within the
\* limit is still written to the worker.
WithinLimit(c) ==
  LET conn == activeConnections[c] IN
    (IF now - conn.windowStart > RATE_LIMIT_WINDOW THEN 1 ELSE conn.messageCount + 1)
      <= RATE_LIMIT_MAX_REQUESTS

C9_MalformedDropped ==
  [][\A c \in Clients, m \in SessionMsgs :
       (ClientMessage(c, m) /\ c \in Active /\ WithinLimit(c)) =>
          /\ Malformed(m) =>
               /\ stdin' = stdin
               /\ socket' = socket
               /\ DOMAIN activeConnections' = DOMAIN activeConnections
               /\ UNCHANGED <<lspProcess, sent, signals, cleanups>>
          /\ (~Malformed(m) /\ inbox[c] > Len(stdin[c])) =>
               stdin'[c] = Append(stdin[c], FrameMessage(m.text))]_vars

\* Of two messages of an open session one was dropped and one written.
C9_Witness ==
  \E c \in Active :
    /\ inbox[c] = 2
    /\ Len(stdin[c]) = 1
    /\ activeConnections[c].messageCount = 2
    /\ socket[c].readyState = "OPEN"

\* C10 (FIFO in both directions).  The bytes written to the worker's input
\* are the frames of the accepted messages, in the order received; the
\* messages sent to the socket are frames the worker wrote, in the order it
\* wrote them, none twice.
RECURSIVE Concat(_)
Concat(ss) == IF Len(ss) = 0 THEN <<>> ELSE Head(ss) \o Concat(Tail(ss))

\* The LSP base protocol's reading of a byte stream of whole frames:
\* Content-Length counts bytes.
RECURSIVE LspDecode(_)
LspDecode(bytes) ==
  IF Len(bytes) = 0 THEN <<>>
  ELSE LET d == DigitRun(bytes, 17)
           n == ParseInt(SubSeq(bytes, 17, 16 + d))
           start == 16 + d + 4
       IN <<BufferToString(SubSeq(bytes, start + 1, start + n))>>
            \o LspDecode(SubSeq(bytes, start + n + 1, Len(bytes)))

RECURSIVE IsSubseq(_, _)
IsSubseq(s, t) ==
  IF Len(s) = 0 THEN TRUE
  ELSE IF Len(t) = 0 THEN FALSE
  ELSE IF Head(s) = Head(t) THEN IsSubseq(Tail(s), Tail(t))
  ELSE IsSubseq(s, Tail(t))

C10_FifoBothDirections ==
  \A c \in Clients :
    /\ LspDecode(Utf8Encode(Concat(stdin[c]))) = accepted[c]
    /\ IsSubseq(sent[c], wrote[c])

\* C11 (Close reasons).  Each session-ending condition closes the socket with
\* its own reason: a refusal at capacity with the capacity reason, a message
\* over the limit on an open socket with the rate-limit reason, a worker exit
\* or error on an open socket with the process reason, an expired spawn timer
\* on a worker that never started with the initialization-timeout reason, a
\* shutdown teardown of an open socket with the cleanup reason; and a reason
\* once sent is never replaced.
C11_CloseReasons ==
  [][\A c \in Clients :
       /\ ( /\ socket[c].readyState = "NONE"
            /\ socket'[c].readyState # "NONE"
            /\ Cardinality(Active) = MAX_CLIENTS )
          => socket'[c].closeReason = "Server capacity reached"
       /\ ( /\ socket[c].readyState = "OPEN"
            /\ c \in Active
            /\ ~WithinLimit(c)
            /\ \E m \in GatewayMsgs : ClientMessage(c, m) )
          => socket'[c] = [readyState |-> "CLOSING", closeReason |-> "Rate limit exceeded"]
       /\ (socket[c].readyState = "OPEN" /\ WorkerExit(c))
          => socket'[c] = [readyState |-> "CLOSING", closeReason |-> "Server process exited"]
       /\ (socket[c].readyState = "OPEN" /\ WorkerError(c))
          => socket'[c] = [readyState |-> "CLOSING", closeReason |-> "Server process error"]
       /\ (SpawnTimeout(c) /\ ~Started(c))
          => socket'[c].closeReason = "Server initialization timeout"
       /\ (socket[c].readyState = "OPEN" /\ c \in Active /\ Shutdown)
          => socket'[c] = [readyState |-> "CLOSING", closeReason |-> "Cleanup"]
       /\ socket[c].readyState \in {"CLOSING", "CLOSED"}
          => socket'[c].closeReason = socket[c].closeReason]_vars

\* Two sessions side by side, both accepted and their workers started: the
\* messages, worker output and terminal events of each, and shutdown.
Pair == {1, 2}
PairMsgs == {Msg(<<"a">>, TRUE, TRUE, TRUE), Msg(<<"a">>, FALSE, FALSE, FALSE)}

InitPair ==
  /\ activeConnections =
       [c \in Pair |-> [messageCount |-> 0, windowStart |-> 0, messageBuffer |-> <<>>]]
  /\ socket = [c \in Clients |-> IF c \in Pair THEN [readyState |-> "OPEN", closeReason |-> ""]
                                 ELSE NoSocket]
  /\ lspProcess = [c \in Clients |-> IF c \in Pair THEN [state |-> "running", killed |-> FALSE]
                                     ELSE NoProcess]
  /\ spawnTimeout = [c \in Clients |-> IF c \in Pair THEN "cleared" ELSE "none"]
  /\ stdin = [c \in Clients |-> <<>>]
  /\ sent = [c \in Clients |-> <<>>]
  /\ pipe = [c \in Clients |-> <<>>]
  /\ now = 0
  /\ listening = TRUE
  /\ exited = FALSE
  /\ graceOver = FALSE
  /\ NoWorker
  /\ inbox = [c \in Clients |-> 0]
  /\ accepted = [c \in Clients |-> <<>>]
  /\ forwardedAt = [c \in Clients |-> <<>>]
  /\ wrote = [c \in Clients |-> <<>>]
  /\ signals = [c \in Clients |-> <<>>]
  /\ cleanups = [c \in Clients |-> 0]

NextPair ==
  \/ \E c \in Pair, m \in PairMsgs : TotalRecv < MaxGatewayRecv /\ ClientMessage(c, m)
  \/ \E c \in Pair : Len(wrote[c]) < MaxOut /\ WorkerWrite(c, <<"a">>)
  \/ \E c \in Pair : \E k \in {Len(HeaderFor(1)), Len(pipe[c])} : StdoutData(c, k)
  \/ \E c \in Pair : WorkerExit(c)
  \/ \E c \in Pair : WorkerError(c)
  \/ \E c \in Pair : SocketClose(c)
  \/ \E c \in Pair : SocketError(c)
  \/ Shutdown

SpecPair == InitPair /\ [][NextPair]_vars

\* C12 (No shared state).  An event of one session (a message of any kind,
\* worker output, a worker exit or error, a socket close or error, with the
\* teardown it causes) leaves every other session's counter, window start,
\* buffer, worker, socket, membership in the active set, and what was
\* written to its worker and sent on its socket, as they were.
SessionEvent(c) ==
  \/ \E m \in PairMsgs : ClientMessage(c, m)
  \/ WorkerWrite(c, <<"a">>)
  \/ \E k \in 1..Len(pipe[c]) : StdoutData(c, k)
  \/ WorkerExit(c)
  \/ WorkerError(c)
  \/ SocketClose(c)
  \/ SocketError(c)

C12_NoSharedState ==
  [][\A c \in Clients : \A d \in Clients \ {c} :
       SessionEvent(c) =>
         /\ (d \in DOMAIN activeConnections) <=> (d \in DOMAIN activeConnections')
         /\ d \in DOMAIN activeConnections => activeConnections'[d] = activeConnections[d]
         /\ lspProcess'[d] = lspProcess[d]
         /\ socket'[d] = socket[d]
         /\ stdin'[d] = stdin[d]
         /\ sent'[d] = sent[d]
         /\ signals'[d] = signals[d]]_vars

\* One session's worker crashed and the session was torn down, while the
\* other session is open with a message counted, one written to its worker
\* and one sent to its client.
C12_Witness ==
  /\ 1 \notin Active
  /\ lspProcess[1].state = "exited"
  /\ 2 \in Active
  /\ socket[2].readyState = "OPEN"
  /\ lspProcess[2] = [state |-> "running", killed |-> FALSE]
  /\ activeConnections[2].messageCount = 1
  /\ Len(stdin[2]) = 1
  /\ Len(sent[2]) = 1
  /\ socket[1].closeReason = "Server process exited"

\* C13 (Shutdown).  Once shutdown has run the servers no longer listen and
\* the active set is empty, and when the grace period that follows it has
\* run out the gateway process has exited (by itself, or force-exited).
C13_ShutdownBounded ==
  /\ ~listening => Active = {}
  /\ graceOver => exited

\* ================================================================ worker
\* The language server (src/server.ts) that runs as the worker of a session.
\*
\* A text is a sequence of lines; a line is a sequence of tokens, the
\* whitespace between two tokens being one blank.  A token is a word (a run
\* of \w characters) or one punctuation character.

\* String.prototype.toLowerCase on the tokens in use.
LowerTable ==
  ("Public" :> "public") @@ ("Private" :> "private") @@ ("Dim" :> "dim") @@ ("Module" :> "module") @@
  ("Class" :> "class") @@ ("Property" :> "property") @@ ("Get" :> "get") @@ ("Let" :> "let") @@
  ("Set" :> "set") @@ ("Function" :> "function") @@ ("Sub" :> "sub") @@ ("Const" :> "const") @@
  ("Enum" :> "enum") @@ ("Type" :> "type") @@ ("As" :> "as") @@ ("Inherits" :> "inherits") @@
  ("Implements" :> "implements") @@ ("ByVal" :> "byval") @@ ("ByRef" :> "byref") @@ ("End" :> "end") @@
  ("REM" :> "rem") @@ ("If" :> "if") @@ ("Then" :> "then") @@ ("Else" :> "else") @@
  ("For" :> "for") @@ ("Next" :> "next") @@ ("While" :> "while") @@ ("Return" :> "return") @@
  ("New" :> "new") @@ ("String" :> "string") @@ ("Integer" :> "integer") @@ ("Long" :> "long") @@
  ("Double" :> "double") @@ ("Boolean" :> "boolean") @@ ("Date" :> "date") @@ ("Object" :> "object") @@
  ("Variant" :> "variant") @@ ("Add" :> "add") @@ ("ADD" :> "add") @@ ("Foo" :> "foo") @@
  ("Bar" :> "bar") @@ ("Letter" :> "letter") @@ ("PUBLIC" :> "public") @@ ("FUNCTION" :> "function") @@
  ("Color" :> "color") @@ ("Max" :> "max") @@ ("Name" :> "name") @@ ("Point" :> "point") @@
  ("Main" :> "main")

toLowerCase(t) == IF t \in DOMAIN LowerTable THEN LowerTable[t] ELSE t

\* \w+ : the token is a word.
IsWord(t) == t \notin {"(", ")", ",", "=", "'", ":", "."}

\* Position of the first token of line, at or after position from, that
\* is t; 0 when there is none.
RECURSIVE IndexOfToken(_, _, _)
IndexOfToken(line, t, from) ==
  IF from > Len(line) THEN 0
  ELSE IF line[from] = t THEN from
  ELSE IndexOfToken(line, t, from + 1)

\* text.replace(/\s+_\s*\n/g, ' ').split('\n'): a line that ends in a
\* blank and the continuation character is joined with the line after it.
RECURSIVE JoinContinuations(_)
JoinContinuations(text) ==
  IF Len(text) <= 1 THEN text
  ELSE LET first == text[1] IN
    IF Len(first) >= 2 /\ first[Len(first)] = "_"
    THEN JoinContinuations(
           <<SubSeq(first, 1, Len(first) - 1) \o text[2]>> \o SubSeq(text, 3, Len(text)))
    ELSE <<first>> \o JoinContinuations(Tail(text))

\* (Public\s+|Private\s+)? at the start of the line: the number of tokens
\* the optional group takes.
ModifierLength(line) ==
  IF Len(line) >= 2 /\ toLowerCase(line[1]) \in {"public", "private"} THEN 1 ELSE 0

\* matchN[1]?.trim() || 'Public'
AccessibilityOf(line) == IF ModifierLength(line) = 1 THEN line[1] ELSE "Public"

\* ^\s*(Public\s+|Private\s+)?KEYWORD\s+(\w+) with the /i flag.
DeclMatch(line, keyword) ==
  LET p == ModifierLength(line) IN
    /\ Len(line) >= p + 2
    /\ toLowerCase(line[p + 1]) = keyword
    /\ IsWord(line[p + 2])

\* location: { uri, range: { start: { line: i, ... } } }
LocationOf(uri, i) == [uri |-> uri, line |-> i]

\* (?:\s*\((.*?)\))? at position q (the token after the name): the position
\* after the group; q itself when the group does not match.
AfterParens(line, q) ==
  IF q <= Len(line) /\ line[q] = "(" /\ IndexOfToken(line, ")", q + 1) > 0
  THEN IndexOfToken(line, ")", q + 1) + 1
  ELSE q

\* (?:As\s+(\w+))? at position q: the type, or 'Variant'.
HasAsType(line, q) ==
  /\ Len(line) >= q + 1
  /\ toLowerCase(line[q]) = "as"
  /\ IsWord(line[q + 1])

TypeAt(line, q) == IF HasAsType(line, q) THEN line[q + 1] ELSE "Variant"

\* funcMatch[3].split(','): the token runs between the commas.
RECURSIVE SplitComma(_)
SplitComma(toks) ==
  LET k == IndexOfToken(toks, ",", 1) IN
    IF k = 0 THEN <<toks>>
    ELSE <<SubSeq(toks, 1, k - 1)>> \o SplitComma(SubSeq(toks, k + 1, Len(toks)))

\* Mutant of the parameter pattern: the declared type is not read.
ParamOf_Untyped(toks) == <<toks[1], ":", "Variant">>

\* p.trim().match(/(?:ByVal\s+|ByRef\s+)?(\w+)(?:\s+As\s+(\w+))?/i) and the
\* string `${name}: ${type || 'Variant'}`, as the tokens <<name, ":", type>>.
ParamOf(toks) ==
  LET q == IF Len(toks) >= 2 /\ toLowerCase(toks[1]) \in {"byval", "byref"} THEN 2 ELSE 1
  IN IF Len(toks) >= q + 2 /\ toLowerCase(toks[q + 1]) = "as" /\ IsWord(toks[q + 2])
     THEN <<toks[q], ":", toks[q + 2]>>
     ELSE <<toks[q], ":", "Variant">>

\* .split(',').map(...).filter(p => p)
RECURSIVE MapParams(_)
MapParams(segs) ==
  IF Len(segs) = 0 THEN <<>>
  ELSE (IF Len(Head(segs)) = 0 THEN <<>> ELSE <<ParamOf(Head(segs))>>)
         \o MapParams(Tail(segs))

ParamsOf(toks) == IF Len(toks) = 0 THEN <<>> ELSE MapParams(SplitComma(toks))

\* params.join(', ')
RECURSIVE JoinParams(_)
JoinParams(params) ==
  IF Len(params) = 0 THEN <<>>
  ELSE IF Len(params) = 1 THEN params[1]
  ELSE params[1] \o <<",">> \o JoinParams(Tail(params))

\* KEYWORD\s+(\w+)\s*\((.*?)\) of the function and the subroutine pattern.
CallableMatch(line, keyword) ==
  LET p == ModifierLength(line) IN
    /\ DeclMatch(line, keyword)
    /\ Len(line) >= p + 3
    /\ line[p + 3] = "("
    /\ IndexOfToken(line, ")", p + 4) > 0

CallableParams(line) ==
  LET p == ModifierLength(line)
      close == IndexOfToken(line, ")", p + 4)
  IN ParamsOf(SubSeq(line, p + 4, close - 1))

\* Property\s+(Get|Let|Set)?\s*(\w+): the accessor the optional group takes
\* and the name.  A name that begins with Get, Let or Set loses these
\* letters to the group.
AccessorSplit == ("Letter" :> [access |-> "Let", name |-> "ter"])

PropertyMatch(line) ==
  LET p == ModifierLength(line) IN DeclMatch(line, "property")

PropertyParts(line) ==
  LET p == ModifierLength(line)
      t == line[p + 2]
  IN IF toLowerCase(t) \in {"get", "let", "set"} /\ Len(line) >= p + 3 /\ IsWord(line[p + 3])
     THEN [access |-> t, name |-> line[p + 3], next |-> p + 4]
     ELSE IF t \in DOMAIN AccessorSplit
     THEN [access |-> AccessorSplit[t].access, name |-> AccessorSplit[t].name, next |-> p + 3]
     ELSE [access |-> "Get", name |-> t, next |-> p + 3]

\* ^\s*(Dim|Private|Public)\s+(\w+)(?:\s*\(.*?\))?\s*(?:As\s+(\w+))?
VarMatch(line) ==
  /\ Len(line) >= 2
  /\ toLowerCase(line[1]) \in {"dim", "private", "public"}
  /\ IsWord(line[2])

\* Const\s+(\w+)\s*(?:As\s+(\w+))?\s*=\s*(.+)$
ConstMatch(line) ==
  LET p == ModifierLength(line)
      q == IF HasAsType(line, p + 3) THEN p + 5 ELSE p + 3
  IN /\ DeclMatch(line, "const")
     /\ Len(line) >= q + 1
     /\ line[q] = "="

\* The symbols one line pushes: the body of the for loop of
\* parseDocumentSymbols for line i (0-based), inside class/module scope or not.
IsSkipped(line) ==
  \/ Len(line) = 0
  \/ line[1] = "'"
  \/ line[1] = "REM" /\ Len(line) >= 2

ModuleSymbol(line, uri, i) ==
  [name |-> line[ModifierLength(line) + 2], kind |-> "Module", detail |-> <<"Module">>,
   accessibility |-> AccessibilityOf(line), location |-> LocationOf(uri, i)]

ClassSymbol(line, uri, i) ==
  LET p == ModifierLength(line)
      base == /\ Len(line) >= p + 4
              /\ toLowerCase(line[p + 3]) \in {"inherits", "implements"}
              /\ IsWord(line[p + 4])
  IN [name |-> line[p + 2], kind |-> "Class",
      detail |-> IF base THEN <<"Class", "(", line[p + 4], ")">> ELSE <<"Class">>,
      accessibility |-> AccessibilityOf(line), location |-> LocationOf(uri, i)]

PropertySymbol(line, uri, i) ==
  LET parts == PropertyParts(line)
      propType == TypeAt(line, AfterParens(line, parts.next))
  IN [name |-> parts.name, kind |-> "Property",
      detail |-> <<"Property", parts.access, "As", propType>>,
      accessibility |-> AccessibilityOf(line), type |-> propType,
      location |-> LocationOf(uri, i)]

FunctionSymbol(line, uri, i) ==
  LET p == ModifierLength(line)
      close == IndexOfToken(line, ")", p + 4)
      params == CallableParams(line)
      \* (?:\s+As\s+(\w+))? directly after the closing parenthesis
      returnType == TypeAt(line, close + 1)
  IN [name |-> line[p + 2], kind |-> "Function",
      detail |-> <<"Function", "(">> \o JoinParams(params) \o <<")", "As", returnType>>,
      accessibility |-> AccessibilityOf(line), parameters |-> params,
      returnType |-> returnType, location |-> LocationOf(uri, i)]

SubSymbol(line, uri, i) ==
  LET p == ModifierLength(line)
      params == CallableParams(line)
  IN [name |-> line[p + 2], kind |-> "Method",
      detail |-> <<"Sub", "(">> \o JoinParams(params) \o <<")">>,
      accessibility |-> AccessibilityOf(line), parameters |-> params,
      location |-> LocationOf(uri, i)]

VariableSymbol(line, uri, i, inScope) ==
  LET scope == IF toLowerCase(line[1]) = "dim"
               THEN (IF inScope THEN "Private" ELSE "Local")
               ELSE line[1]
      varType == TypeAt(line, AfterParens(line, 3))
  IN [name |-> line[2], kind |-> "Variable",
      detail |-> <<scope, "Variable", "As", varType>>,
      type |-> varType, accessibility |-> scope, location |-> LocationOf(uri, i)]

ConstSymbol(line, uri, i) ==
  LET p == ModifierLength(line)
      q == IF HasAsType(line, p + 3) THEN p + 5 ELSE p + 3
      constType == TypeAt(line, p + 3)
  IN [name |-> line[p + 2], kind |-> "Constant",
      detail |-> <<"Constant", "As", constType, "=">> \o SubSeq(line, q + 1, Len(line)),
      type |-> constType, accessibility |-> AccessibilityOf(line),
      location |-> LocationOf(uri, i)]

EnumSymbol(line, uri, i) ==
  [name |-> line[ModifierLength(line) + 2], kind |-> "Enum", detail |-> <<"Enumeration">>,
   accessibility |-> AccessibilityOf(line), location |-> LocationOf(uri, i)]

TypeSymbol(line, uri, i) ==
  [name |-> line[ModifierLength(line) + 2], kind |-> "Struct",
   detail |-> <<"User-Defined", "Type">>,
   accessibility |-> AccessibilityOf(line), location |-> LocationOf(uri, i)]

\* Mutant of the variable pattern: it is not tried on a line another
\* declaration pattern has matched.
VariableSymbols_OnlyAlone(line, uri, i, inScope, matched) ==
  IF VarMatch(line) /\ ~matched THEN <<VariableSymbol(line, uri, i, inScope)>> ELSE <<>>

\* The variable pattern is tried on every line the loop did not `continue` on.
VariableSymbols(line, uri, i, inScope, matched) ==
  IF VarMatch(line) THEN <<VariableSymbol(line, uri, i, inScope)>> ELSE <<>>

LineSymbols(line, uri, i, inScope) ==
  IF IsSkipped(line) THEN <<>>
  ELSE IF DeclMatch(line, "module") THEN <<ModuleSymbol(line, uri, i)>>
  ELSE IF DeclMatch(line, "class") THEN <<ClassSymbol(line, uri, i)>>
  ELSE
    LET matched == \/ PropertyMatch(line) \/ CallableMatch(line, "function")
                   \/ CallableMatch(line, "sub") \/ ConstMatch(line)
                   \/ DeclMatch(line, "enum") \/ DeclMatch(line, "type")
    IN (IF PropertyMatch(line) THEN <<PropertySymbol(line, uri, i)>> ELSE <<>>)
       \o (IF CallableMatch(line, "function") THEN <<FunctionSymbol(line, uri, i)>> ELSE <<>>)
       \o (IF CallableMatch(line, "sub") THEN <<SubSymbol(line, uri, i)>> ELSE <<>>)
       \o VariableSymbols(line, uri, i, inScope, matched)
       \o (IF ConstMatch(line) THEN <<ConstSymbol(line, uri, i)>> ELSE <<>>)
       \o (IF DeclMatch(line, "enum") THEN <<EnumSymbol(line, uri, i)>> ELSE <<>>)
       \o (IF DeclMatch(line, "type") THEN <<TypeSymbol(line, uri, i)>> ELSE <<>>)

\* The for loop from line index i on; inScope is currentClass || currentModule.
RECURSIVE ParseLines(_, _, _, _)
ParseLines(lines, uri, i, inScope) ==
  IF i >= Len(lines) THEN <<>>
  ELSE LET line == lines[i + 1]
           opens == ~IsSkipped(line) /\ (DeclMatch(line, "module") \/ DeclMatch(line, "class"))
       IN LineSymbols(line, uri, i, inScope)
            \o ParseLines(lines, uri, i + 1, inScope \/ opens)

parseDocumentSymbols(text, uri) == ParseLines(JoinContinuations(text), uri, 0, FALSE)

\* ----------------------------------------------------- the built-in catalog
Builtin(name, kind, detail, documentation) ==
  [name |-> name, kind |-> kind, detail |-> <<detail>>, documentation |-> <<documentation>>]

vbKeywords ==
  <<Builtin("Dim", "Keyword", "Variable declaration", "Declares variables and allocates storage space."),
    Builtin("Public", "Keyword", "Access modifier", "Declares public accessibility."),
    Builtin("Private", "Keyword", "Access modifier", "Declares private accessibility."),
    Builtin("Function", "Keyword", "Function declaration", "Declares a function that returns a value."),
    Builtin("Sub", "Keyword", "Subroutine declaration", "Declares a subroutine."),
    Builtin("Class", "Keyword", "Class declaration", "Declares a class."),
    Builtin("Module", "Keyword", "Module declaration", "Declares a module."),
    Builtin("If", "Keyword", "Conditional statement", "Conditional execution."),
    Builtin("Then", "Keyword", "Conditional clause", "Part of If statement."),
    Builtin("Else", "Keyword", "Alternative clause", "Alternative branch."),
    Builtin("End", "Keyword", "Block terminator", "Terminates a block."),
    Builtin("For", "Keyword", "Loop statement", "For loop."),
    Builtin("Next", "Keyword", "Loop terminator", "Ends For loop."),
    Builtin("While", "Keyword", "Loop statement", "While loop."),
    Builtin("Return", "Keyword", "Return statement", "Returns from function."),
    Builtin("As", "Keyword", "Type declaration", "Specifies type."),
    Builtin("New", "Keyword", "Object instantiation", "Creates new instance.")>>

vbTypes ==
  <<Builtin("String", "Class", "System.String", "Text string type."),
    Builtin("Integer", "Class", "System.Int32", "32-bit integer."),
    Builtin("Long", "Class", "System.Int64", "64-bit integer."),
    Builtin("Double", "Class", "System.Double", "Double precision float."),
    Builtin("Boolean", "Class", "System.Boolean", "True or False."),
    Builtin("Date", "Class", "System.DateTime", "Date and time."),
    Builtin("Object", "Class", "System.Object", "Base object type.")>>

\* An entry of a Map, and the Map operations on a sequence of entries
\* (iteration order is insertion order; set on a present key keeps its place).
Entry(key, value) == [key |-> key, value |-> value]

MapHas(map, key) == \E j \in 1..Len(map) : map[j].key = key

\* map.get(key) || []
MapGet(map, key) ==
  IF MapHas(map, key) THEN map[CHOOSE j \in 1..Len(map) : map[j].key = key].value ELSE <<>>

MapSet(map, key, value) ==
  IF MapHas(map, key)
  THEN [j \in 1..Len(map) |-> IF map[j].key = key THEN Entry(key, value) ELSE map[j]]
  ELSE Append(map, Entry(key, value))

RECURSIVE MapDelete(_, _)
MapDelete(map, key) ==
  IF Len(map) = 0 THEN <<>>
  ELSE IF Head(map).key = key THEN Tail(map)
  ELSE <<Head(map)>> \o MapDelete(Tail(map), key)

\* loadVisualBasicSymbols()
loadVisualBasicSymbols(symbols) ==
  MapSet(MapSet(symbols, "keywords", vbKeywords), "types", vbTypes)

\* ------------------------------------------------------- files and URIs
\* The file tree the model knows: each directory and what readdirSync lists
\* in it, in order.  workspaceRoot is the folder of the client's rootUri,
\* testFolder the folder onInitialize adds to the workspace folders, and
\* testFolderPath is path.join(__dirname, '..', 'test').
workspaceRoot == "/w"
testFolder == "/w/test"
testFolderPath == "/srv/test"
Tree ==
  ("/w" :> <<"/w/a.vb", "/w/b c.vb", "/w/notes.txt", "/w/node_modules", "/w/sub">>)
    @@ ("/w/node_modules" :> <<"/w/node_modules/d.vb">>)
    @@ ("/w/sub" :> <<"/w/sub/c.vb">>)
    @@ ("/w/test" :> <<>>)
    @@ ("/srv/test" :> <<"/srv/test/t.vb">>)
    @@ ("/etc" :> <<"/etc/x.vb">>)

RECURSIVE RangeOf(_)
RangeOf(seq) == IF Len(seq) = 0 THEN {} ELSE {Head(seq)} \cup RangeOf(Tail(seq))

AllPaths == DOMAIN Tree \cup UNION {RangeOf(Tree[d]) : d \in DOMAIN Tree}

\* What a path of the disk holds besides a text or NoFile.
Directory == << <<"DIR">> >>
Unreadable == << <<"EACCES">> >>

\* The two files of the workspace folder the index specification works on.
Paths == <<"/w/a.vb", "/w/b c.vb">>
PathSet == {Paths[j] : j \in 1..Len(Paths)}

\* The URI under which the client names a file: percent-encoded.
ClientUri(path) == IF path = "/w/b c.vb" THEN "file:///w/b%20c.vb" ELSE "file://" \o path
Uris == {ClientUri(f) : f \in PathSet}

\* decodeURIComponent(uri.replace('file://', ''))
decodeURIComponent(uri) ==
  IF uri = "file:///w/b%20c.vb" THEN "/w/b c.vb"
  ELSE IF uri = "file:///w/%2E%2E/etc/x.vb" THEN "/w/../etc/x.vb"
  ELSE IF uri = "file://../x.vb" THEN "../x.vb"
  ELSE SubSeq(uri, 8, Len(uri))

\* 'file://' + filePath
FileUri(filePath) == "file://" \o filePath

\* path.normalize(filePath): `dir/..` pairs are resolved; a leading `..` of
\* a relative path stays.
normalize(filePath) == IF filePath = "/w/../etc/x.vb" THEN "/etc/x.vb" ELSE filePath

\* isValidPath: !path.normalize(filePath).includes('..')
isValidPath(filePath) == normalize(filePath) \notin {"../x.vb"}

\* entry.name of a directory entry
BaseName(path) ==
  IF path = "/w/node_modules" THEN "node_modules"
  ELSE IF path = "/w/sub" THEN "sub"
  ELSE IF path = "/w/notes.txt" THEN "notes.txt"
  ELSE path

\* vbFilePatterns.some(ext => entry.name.toLowerCase().endsWith(ext))
IsVbFile(path) == path \notin DOMAIN Tree /\ path # "/w/notes.txt"

\* fs.readFileSync(filePath, 'utf-8'): <<>> when it throws, else <<text>>.
\* The file system resolves the path as path.normalize does.
readFileSync(files, filePath) ==
  LET real == normalize(filePath) IN
    IF real \notin DOMAIN files THEN <<>>
    ELSE IF files[real] \in {NoFile, Unreadable, Directory} THEN <<>>
    ELSE <<files[real]>>

\* indexFile(filePath) on the index fs: an invalid path is refused, and
\* when readFileSync throws the catch leaves the index as it was.
indexFile(fs, filePath, files) ==
  IF ~isValidPath(filePath) THEN fs
  ELSE IF readFileSync(files, filePath) = <<>> THEN fs
  ELSE LET uri == FileUri(filePath) IN
         MapSet(fs, uri, parseDocumentSymbols(readFileSync(files, filePath)[1], uri))

\* ------------------------------------------------------------- queries
\* symbols.find(s => s.name.toLowerCase() === lowerName): <<the symbol>>, or
\* <<>> for undefined.
RECURSIVE Find(_, _)
Find(symbols, lowerName) ==
  IF Len(symbols) = 0 THEN <<>>
  ELSE IF toLowerCase(Head(symbols).name) = lowerName THEN <<Head(symbols)>>
  ELSE Find(Tail(symbols), lowerName)

\* for (const [key, symbols] of map) { find ...; if (symbol) return symbol; }
RECURSIVE FindInMap(_, _)
FindInMap(map, lowerName) ==
  IF Len(map) = 0 THEN <<>>
  ELSE IF Find(Head(map).value, lowerName) # <<>> THEN Find(Head(map).value, lowerName)
  ELSE FindInMap(Tail(map), lowerName)

\* Mutant of findSymbol: the built-in catalog is searched first.
findSymbol_CatalogFirst(name, currentUri, index) ==
  LET lowerName == toLowerCase(name) IN
    IF FindInMap(index.symbols, lowerName) # <<>> THEN FindInMap(index.symbols, lowerName)
    ELSE IF Find(MapGet(index.fileSymbols, currentUri), lowerName) # <<>>
    THEN Find(MapGet(index.fileSymbols, currentUri), lowerName)
    ELSE FindInMap(index.fileSymbols, lowerName)

findSymbol(name, currentUri, index) ==
  LET lowerName == toLowerCase(name)
      currentFileSymbols == MapGet(index.fileSymbols, currentUri)
  IN IF Find(currentFileSymbols, lowerName) # <<>> THEN Find(currentFileSymbols, lowerName)
     ELSE IF FindInMap(index.fileSymbols, lowerName) # <<>>
     THEN FindInMap(index.fileSymbols, lowerName)
     ELSE FindInMap(index.symbols, lowerName)

\* getWordAtPosition(lineText, character): a position is the token the
\* cursor touches (at its start, inside it, or at its end), 0 when the cursor
\* touches no word character.
getWordAtPosition(lineText, token) ==
  IF token = 0 \/ token > Len(lineText) THEN ""
  ELSE IF IsWord(lineText[token]) THEN lineText[token]
  ELSE ""

\* The Hover the handler returns: <<>> for null, else <<[contents |-> ...]>>;
\* the markdown value is a sequence of tokens.
Markdown(value) == <<[contents |-> [kind |-> "markdown", value |-> value]]>>

\* Mutant of the hover handler: the catalog loop is left out.
HoverCatalog_Skipped(word, index) == <<>>

\* The loop over workspaceIndex.symbols at the head of the hover handler.
HoverCatalog(word, index) == FindInMap(index.symbols, toLowerCase(word))

onHover(uri, line, token, docs, index) ==
  IF uri \notin DOMAIN docs THEN <<>>
  ELSE
    LET lineText == docs[uri][line + 1]
        word == getWordAtPosition(lineText, token)
        builtin == HoverCatalog(word, index)
        foundSymbol == findSymbol(word, uri, index)
    IN IF builtin # <<>>
       THEN Markdown(<<"**", builtin[1].name, "**", "\n\n">> \o builtin[1].detail
                       \o <<"\n\n">> \o builtin[1].documentation)
       ELSE IF foundSymbol # <<>>
       THEN Markdown(<<"**", foundSymbol[1].name, "**", "\n\n">> \o foundSymbol[1].detail
                       \o (IF "type" \in DOMAIN foundSymbol[1]
                           THEN <<"\n\n", "Type:", foundSymbol[1].type>> ELSE <<>>))
       ELSE <<>>

\* The Definition the handler returns: <<>> for null, else <<location>>.
onDefinition(uri, line, token, docs, index) ==
  IF uri \notin DOMAIN docs THEN <<>>
  ELSE
    LET word == getWordAtPosition(docs[uri][line + 1], token)
        symbol == findSymbol(word, uri, index)
    IN IF symbol # <<>> /\ "location" \in DOMAIN symbol[1] THEN <<symbol[1].location>>
       ELSE <<>>

\* -------------------------------------------------------- configuration
\* { ...base, ...over }: the own keys of over replace those of base, whole.
Spread(base, over) ==
  [k \in DOMAIN base \cup DOMAIN over |-> IF k \in DOMAIN over THEN over[k] ELSE base[k]]

\* What .vbconfig.json holds: no file, text that is not JSON, or an object.
NoConfigFile == [json |-> "absent"]
BadConfigFile == [json |-> "invalid"]
ConfigFile(object) == [json |-> "object", value |-> object]

\* The try block that loads .vbconfig.json: a missing file and a parse
\* error leave the configuration as it is.
LoadConfig(config, file) ==
  IF file.json = "object" THEN Spread(defaultConfig, file.value) ELSE config

\* Mutant of the configuration test: every switch reads as on.
Truthy_Always(config, section, key) == TRUE

\* currentConfig.section?.key, as a condition: undefined is falsy.
Truthy(config, section, key) ==
  /\ section \in DOMAIN config
  /\ key \in DOMAIN config[section]
  /\ config[section][key] = TRUE

\* ----------------------------------------------------------- diagnostics
Diagnostic(code, severity, i, message) ==
  [code |-> code, severity |-> severity, line |-> i, message |-> message, source |-> "vb-lsp"]

\* line.startsWith("'") || line.startsWith('REM ')
IsComment(line) ==
  /\ Len(line) >= 1
  /\ \/ line[1] = "'"
     \/ line[1] = "REM" /\ Len(line) >= 2

\* /^\s*Dim\s+\w+\s*$/i
DimWithoutType(line) ==
  /\ Len(line) = 2
  /\ toLowerCase(line[1]) = "dim"
  /\ IsWord(line[2])

\* line.includes(' As '): the word As, in this letter case, with a blank on
\* both sides.
IncludesAs(line) ==
  \E j \in 2..(Len(line) - 1) :
    /\ line[j] = "As"
    /\ line[j - 1] # "("
    /\ line[j + 1] \notin {")", ","}

\* /^\s*(Public|Private)?\s*Function\s+\w+\s*\(/i
FunctionWithParens(line) ==
  /\ DeclMatch(line, "function")
  /\ Len(line) >= ModifierLength(line) + 3
  /\ line[ModifierLength(line) + 3] = "("

\* The block a line opens ("" when it opens none), by the else-if chain.
BlockOpened(line) ==
  IF DeclMatch(line, "class") THEN "Class"
  ELSE IF DeclMatch(line, "module") THEN "Module"
  ELSE IF DeclMatch(line, "function") THEN "Function"
  ELSE IF DeclMatch(line, "sub") THEN "Sub"
  ELSE IF Len(line) >= 3 /\ toLowerCase(line[1]) = "if" /\ toLowerCase(line[Len(line)]) = "then"
  THEN "If"
  ELSE IF Len(line) >= 2 /\ toLowerCase(line[1]) = "for" THEN "For"
  ELSE IF Len(line) >= 2 /\ toLowerCase(line[1]) = "while" THEN "While"
  ELSE ""

\* /^\s*End\s+(Class|Module|Function|Sub|If|For|While)/i
IsEndMarker(line) ==
  /\ Len(line) >= 2
  /\ toLowerCase(line[1]) = "end"
  /\ toLowerCase(line[2]) \in {"class", "module", "function", "sub", "if", "for", "while"}

\* Mutant of the end-marker branch: a matching end leaves the block open.
AfterEnd_NoPop(st, line, i) ==
  LET top == st.blockStack[Len(st.blockStack)] IN
    IF toLowerCase(top.type) = toLowerCase(line[2]) THEN st
    ELSE [st EXCEPT !.diagnostics = Append(@, Diagnostic("VB003", "Error", i,
                       <<"Mismatched", "End", top.type, line[2]>>))]

\* Mutant of the end-marker branch: a mismatched end closes the block too.
AfterEnd_PopAlways(st, line, i) ==
  LET top == st.blockStack[Len(st.blockStack)] IN
    IF toLowerCase(top.type) = toLowerCase(line[2])
    THEN [st EXCEPT !.blockStack = SubSeq(@, 1, Len(@) - 1)]
    ELSE [st EXCEPT !.blockStack = SubSeq(@, 1, Len(@) - 1),
                    !.diagnostics = Append(@, Diagnostic("VB003", "Error", i,
                       <<"Mismatched", "End", top.type, line[2]>>))]

\* The end-marker branch on a non-empty stack: pop on a match, else a
\* mismatch diagnostic on the end-marker's line.
AfterEnd(st, line, i) ==
  LET top == st.blockStack[Len(st.blockStack)] IN
    IF toLowerCase(top.type) = toLowerCase(line[2])
    THEN [st EXCEPT !.blockStack = SubSeq(@, 1, Len(@) - 1)]
    ELSE [st EXCEPT !.diagnostics = Append(@, Diagnostic("VB003", "Error", i,
                       <<"Mismatched", "End", top.type, line[2]>>))]

\* VB001 and VB002
CheckTypes(st, line, i, config) ==
  IF ~Truthy(config, "diagnostics", "checkMissingTypes") THEN st
  ELSE [st EXCEPT !.diagnostics =
          @ \o (IF DimWithoutType(line)
                THEN <<Diagnostic("VB001", "Warning", i, <<"Variable", "declared", "without", "explicit", "type">>)>>
                ELSE <<>>)
            \o (IF FunctionWithParens(line) /\ ~IncludesAs(line)
                THEN <<Diagnostic("VB002", "Warning", i, <<"Function", "without", "explicit", "return", "type">>)>>
                ELSE <<>>)]

\* VB003 inside the loop
CheckBlocks(st, line, i, config) ==
  IF ~Truthy(config, "diagnostics", "checkMissingEndStatements") THEN st
  ELSE IF BlockOpened(line) # ""
  THEN [st EXCEPT !.blockStack = Append(@, [type |-> BlockOpened(line), line |-> i])]
  ELSE IF IsEndMarker(line) /\ Len(st.blockStack) > 0 THEN AfterEnd(st, line, i)
  ELSE st

\* new RegExp(`\\b${varName}\\b`, 'i').test(line)
WordIn(line, varName) ==
  \E j \in 1..Len(line) : toLowerCase(line[j]) = toLowerCase(varName)

\* declaredVariables.forEach(... info.used = true ...), which runs only on a
\* line that is not a declaration.
MarkUsed(declared, line, isDeclaration) ==
  IF isDeclaration THEN declared
  ELSE [j \in 1..Len(declared) |->
          IF WordIn(line, declared[j].key)
          THEN [declared[j] EXCEPT !.value.used = TRUE] ELSE declared[j]]

\* VB004 inside the loop: /^\s*Dim\s+(\w+)/i sets the Map entry of the name,
\* any other line marks the variables it mentions.
CheckVariables(st, line, i, config) ==
  IF ~Truthy(config, "diagnostics", "checkUnusedVariables") THEN st
  ELSE LET isDeclaration == Len(line) >= 2 /\ toLowerCase(line[1]) = "dim" /\ IsWord(line[2])
           marked == MarkUsed(st.declaredVariables, line, isDeclaration)
       IN [st EXCEPT !.declaredVariables =
             IF isDeclaration THEN MapSet(marked, line[2], [line |-> i, used |-> FALSE])
             ELSE marked]

\* The for loop over the lines, from line index i on.
RECURSIVE ValidateLines(_, _, _, _)
ValidateLines(st, lines, i, config) ==
  IF i >= Len(lines) THEN st
  ELSE LET line == lines[i + 1] IN
    IF IsComment(line) THEN ValidateLines(st, lines, i + 1, config)
    ELSE ValidateLines(
           CheckVariables(CheckBlocks(CheckTypes(st, line, i, config), line, i, config),
                          line, i, config),
           lines, i + 1, config)

\* blockStack.forEach: one missing-end diagnostic for each block left open.
MissingEnds(blockStack) ==
  [j \in 1..Len(blockStack) |->
     Diagnostic("VB003", "Error", blockStack[j].line, <<"Missing", "End", blockStack[j].type>>)]

\* declaredVariables.forEach: one diagnostic for each variable not used.
RECURSIVE Unused(_)
Unused(declared) ==
  IF Len(declared) = 0 THEN <<>>
  ELSE (IF Head(declared).value.used THEN <<>>
        ELSE <<Diagnostic("VB004", "Information", Head(declared).value.line,
                          <<"Variable", Head(declared).key, "is", "declared", "but", "never", "used">>)>>)
         \o Unused(Tail(declared))

\* validateTextDocument: <<>> when it returns without publishing, else
\* <<the diagnostics it sends>>.
validateTextDocument(text, config) ==
  IF ~Truthy(config, "diagnostics", "enabled") THEN <<>>
  ELSE LET st == ValidateLines([diagnostics |-> <<>>, blockStack |-> <<>>,
                                declaredVariables |-> <<>>], text, 0, config)
       IN << st.diagnostics
             \o (IF Truthy(config, "diagnostics", "checkMissingEndStatements")
                 THEN MissingEnds(st.blockStack) ELSE <<>>)
             \o (IF Truthy(config, "diagnostics", "checkUnusedVariables")
                 THEN Unused(st.declaredVariables) ELSE <<>>) >>

\* What the content-change handler leaves as the worker's last message: the
\* publishDiagnostics notification, when validateTextDocument sends one.
Published(uri, text, config) ==
  LET published == validateTextDocument(text, config) IN
    IF published = <<>> THEN [query |-> "none"]
    ELSE [query |-> "diagnostics", uri |-> uri, diagnostics |-> published[1]]

\* ---------------------------------------------------------- references
\* The matches of new RegExp(`\\b${word}\\b`, 'gi') in one line: the tokens
\* that are the word, letter case apart, as locations.
RECURSIVE LineMatches(_, _, _, _, _)
LineMatches(line, word, uri, lineNum, j) ==
  IF j > Len(line) THEN <<>>
  ELSE (IF toLowerCase(line[j]) = toLowerCase(word)
        THEN <<[uri |-> uri, line |-> lineNum, token |-> j]>> ELSE <<>>)
         \o LineMatches(line, word, uri, lineNum, j + 1)

RECURSIVE TextMatches(_, _, _, _)
TextMatches(text, word, uri, lineNum) ==
  IF lineNum >= Len(text) THEN <<>>
  ELSE LineMatches(text[lineNum + 1], word, uri, lineNum, 1)
         \o TextMatches(text, word, uri, lineNum + 1)

\* fs.readFileSync(uri.replace('file://', ''), 'utf-8') in its try/catch:
\* <<>> for the empty string, else <<text>>.
ReferenceText(uri, docs, files) == readFileSync(files, SubSeq(uri, 8, Len(uri)))

\* With the empty word the pattern is \b\b: it matches the empty string at a
\* word boundary and exec() never moves past it, so the while loop does not end
\* on a line that holds a word.
LoopsForever(text, word) ==
  /\ word = ""
  /\ \E i \in 1..Len(text) : \E j \in 1..Len(text[i]) : IsWord(text[i][j])

\* workspaceIndex.fileSymbols.forEach((symbols, uri) => ...)
RECURSIVE ReferencesIn(_, _, _, _)
ReferencesIn(map, word, docs, files) ==
  IF Len(map) = 0 THEN <<>>
  ELSE LET uri == Head(map).key
           fileContent == ReferenceText(uri, docs, files)
       IN (IF fileContent = <<>> THEN <<>> ELSE TextMatches(fileContent[1], word, uri, 0))
            \o ReferencesIn(Tail(map), word, docs, files)

\* connection.onReferences: [hangs |-> TRUE] when the handler never
\* returns, else the locations it returns.
onReferences(uri, line, token, docs, index, files) ==
  IF uri \notin DOMAIN docs THEN [hangs |-> FALSE, locations |-> <<>>]
  ELSE LET word == getWordAtPosition(docs[uri][line + 1], token) IN
    IF \E j \in 1..Len(index.fileSymbols) :
         LET fileContent == ReferenceText(index.fileSymbols[j].key, docs, files)
         IN fileContent # <<>> /\ LoopsForever(fileContent[1], word)
    THEN [hangs |-> TRUE]
    ELSE [hangs |-> FALSE, locations |-> ReferencesIn(index.fileSymbols, word, docs, files)]

\* ----------------------------------------------------------- completion
\* generateSymbolDocumentation(symbol), as tokens
generateSymbolDocumentation(symbol) ==
  <<"###", symbol.name>>
    \o (IF "accessibility" \in DOMAIN symbol THEN <<"**Accessibility:**", symbol.accessibility>> ELSE <<>>)
    \o (IF "type" \in DOMAIN symbol THEN <<"**Type:**", symbol.type>> ELSE <<>>)
    \o (IF "parameters" \in DOMAIN symbol /\ Len(symbol.parameters) > 0
        THEN <<"**Parameters:**">> \o JoinParams(symbol.parameters) ELSE <<>>)
    \o (IF "returnType" \in DOMAIN symbol THEN <<"**Returns:**", symbol.returnType>> ELSE <<>>)
    \o (IF "documentation" \in DOMAIN symbol THEN symbol.documentation ELSE <<>>)

\* The number of tokens (Public\s+|Private\s+)? takes, without the i flag.
ModifierTokens(prefix) ==
  IF Len(prefix) >= 1 /\ prefix[1] \in {"Public", "Private"} THEN 1 ELSE 0

\* /^\s*(Public\s+|Private\s+)?Class\s+\w*$/ on the line up to the cursor,
\* the cursor being at the end of the last token of prefix.
inClassContext(prefix) ==
  LET p == ModifierTokens(prefix) IN
    /\ Len(prefix) = p + 2
    /\ prefix[p + 1] = "Class"
    /\ IsWord(prefix[p + 2])

\* /\b(?:As|New)\s+\w*$/
inTypeContext(prefix) ==
  /\ Len(prefix) >= 2
  /\ prefix[Len(prefix) - 1] \in {"As", "New"}
  /\ IsWord(prefix[Len(prefix)])

\* /^\s*(Public\s+|Private\s+)?Property\s+(?:Get|Let|Set)?\s*\w*$/
inPropertyContext(prefix) ==
  LET p == ModifierTokens(prefix) IN
    /\ Len(prefix) \in {p + 2, p + 3}
    /\ prefix[p + 1] = "Property"
    /\ Len(prefix) = p + 3 => prefix[p + 2] \in {"Get", "Let", "Set"}
    /\ IsWord(prefix[Len(prefix)])

\* The item of a built-in symbol in the merged list.
BuiltinItem(symbol) ==
  [label |-> symbol.name, kind |-> symbol.kind, detail |-> symbol.detail,
   documentation |-> symbol.documentation, sortText |-> <<"0", symbol.name>>]

\* The item of a built-in symbol when the document is not open.
FallbackItem(symbol) ==
  [label |-> symbol.name, kind |-> symbol.kind, detail |-> symbol.detail,
   documentation |-> symbol.documentation]

\* The item of a workspace symbol.
WorkspaceItem(symbol, uri) ==
  [label |-> symbol.name, kind |-> symbol.kind,
   detail |-> symbol.detail
                \o (IF "parameters" \in DOMAIN symbol
                    THEN <<"\n", "Parameters:", "(">> \o JoinParams(symbol.parameters) \o <<")">>
                    ELSE <<>>)
                \o (IF "type" \in DOMAIN symbol THEN <<"\n", "Type:", symbol.type>> ELSE <<>>),
   documentation |-> [kind |-> "markdown", value |-> generateSymbolDocumentation(symbol)],
   sortText |-> <<"1", symbol.name>>,
   data |-> [uri |-> uri, name |-> symbol.name, kind |-> symbol.kind]]

\* Array.from(map.values()).flat()
RECURSIVE Values(_)
Values(map) == IF Len(map) = 0 THEN <<>> ELSE Head(map).value \o Values(Tail(map))

\* The built-in symbols the context lets through, as items.
RECURSIVE BuiltinItems(_, _)
BuiltinItems(symbols, prefix) ==
  IF Len(symbols) = 0 THEN <<>>
  ELSE LET symbol == Head(symbols) IN
    (IF \/ inTypeContext(prefix) /\ symbol.kind = "Class"
        \/ inClassContext(prefix) /\ symbol.kind = "Keyword"
        \/ ~inTypeContext(prefix) /\ ~inClassContext(prefix)
     THEN <<BuiltinItem(symbol)>> ELSE <<>>)
      \o BuiltinItems(Tail(symbols), prefix)

\* shouldAdd
ShouldAdd(symbol, prefix) ==
  IF inTypeContext(prefix) THEN symbol.kind \in {"Class", "Interface", "Enum", "Struct"}
  ELSE IF inPropertyContext(prefix) THEN symbol.kind \in {"Property", "Method", "Function"}
  ELSE TRUE

\* Mutant of the duplicate test: no item is taken for an existing one.
existing_Never(items, name) == FALSE

\* completionItems.find(item => item.label === symbol.name)
existing(items, name) == \E j \in 1..Len(items) : items[j].label = name

\* The loop over the workspace symbols: a symbol whose name no item has yet
\* is added when the context lets it through.
RECURSIVE MergeWorkspace(_, _, _, _)
MergeWorkspace(items, symbols, prefix, uri) ==
  IF Len(symbols) = 0 THEN items
  ELSE LET symbol == Head(symbols) IN
    MergeWorkspace(
      IF ~existing(items, symbol.name) /\ ShouldAdd(symbol, prefix)
      THEN Append(items, WorkspaceItem(symbol, uri)) ELSE items,
      Tail(symbols), prefix, uri)

RECURSIVE MapFallback(_)
MapFallback(symbols) ==
  IF Len(symbols) = 0 THEN <<>> ELSE <<FallbackItem(Head(symbols))>> \o MapFallback(Tail(symbols))

\* connection.onCompletion, the cursor at the end of token `token` of the line
onCompletion(uri, line, token, docs, index) ==
  IF uri \notin DOMAIN docs THEN MapFallback(Values(index.symbols))
  ELSE LET currentLine == docs[uri][line + 1]
           prefix == SubSeq(currentLine, 1, IF token > Len(currentLine) THEN Len(currentLine) ELSE token)
       IN MergeWorkspace(BuiltinItems(Values(index.symbols), prefix),
                         Values(index.fileSymbols), prefix, uri)

\* ------------------------------------------------------ worker: handlers
\* Mutant of the dispatch rule: handlers run while the scan is under way.
MicrotasksDrained_Always(s) == TRUE

\* The connection dispatches one message per setImmediate callback, and the
\* continuations of the awaits of the scan (indexWorkspace, indexDirectory)
\* are microtasks: none is left when the next message handler starts.
MicrotasksDrained(s) == s.todo = <<>>

\* The event loop is not held by a handler that never returns.
Responsive == ~(reply.query = "references" /\ reply.hangs)

\* The last item of the scan's work list: the report of the totals.
Totals == "totals"

\* currentConfig.indexing?.excludeDirectories || defaultConfig...
excludeDirs(config) ==
  IF "indexing" \in DOMAIN config /\ "excludeDirectories" \in DOMAIN config.indexing
  THEN config.indexing.excludeDirectories
  ELSE defaultConfig.indexing.excludeDirectories

\* The entries of a directory the loop of indexDirectory goes into: the
\* directories not excluded by name, and the files with a VB extension.
RECURSIVE Listing(_, _, _)
Listing(entries, files, config) ==
  IF Len(entries) = 0 THEN <<>>
  ELSE LET e == Head(entries)
           taken == /\ files[e] # NoFile
                    /\ IF e \in DOMAIN Tree
                       THEN BaseName(e) \notin RangeOf(excludeDirs(config))
                       ELSE IsVbFile(e)
       IN (IF taken THEN <<e>> ELSE <<>>) \o Listing(Tail(entries), files, config)

\* Mutant of the catch of indexDirectory: a directory that cannot be read
\* ends the scan.
AfterDirectoryError_Abort(sc, dirPath) ==
  [sc EXCEPT !.todo = <<>>, !.log = Append(@, [level |-> "error", path |-> dirPath])]

\* catch (error) in indexDirectory: the error is logged and the scan goes on
\* with what follows the directory.
AfterDirectoryError(sc, dirPath) ==
  [sc EXCEPT !.todo = Tail(@), !.log = Append(@, [level |-> "error", path |-> dirPath])]

\* The sum of symbols.length over the entries of fileSymbols.
RECURSIVE CountSymbols(_)
CountSymbols(map) == IF Len(map) = 0 THEN 0 ELSE Len(Head(map).value) + CountSymbols(Tail(map))

\* The scan from the head of its work list up to its next await: the
\* directories are opened on the way, one file is indexed.  sc is
\* [todo, fileSymbols, log].
RECURSIVE RunScan(_, _, _)
RunScan(sc, files, config) ==
  IF Len(sc.todo) = 0 THEN sc
  ELSE LET p == Head(sc.todo) IN
    IF p = Totals
    THEN [sc EXCEPT !.todo = <<>>,
                    !.log = Append(@, [level |-> "log", complete |-> TRUE,
                                       files |-> Len(sc.fileSymbols),
                                       symbols |-> CountSymbols(sc.fileSymbols)])]
    ELSE IF p \in DOMAIN Tree
    THEN IF ~isValidPath(p) \/ files[p] = NoFile
         THEN RunScan([sc EXCEPT !.todo = Tail(@)], files, config)
         ELSE IF files[p] # Directory
         THEN RunScan(AfterDirectoryError(sc, p), files, config)
         ELSE RunScan([sc EXCEPT !.todo = Listing(Tree[p], files, config) \o Tail(@)],
                      files, config)
    ELSE [todo |-> Tail(sc.todo),
          fileSymbols |-> indexFile(sc.fileSymbols, p, files),
          log |-> Append(sc.log,
                         IF isValidPath(p) /\ readFileSync(files, p) # <<>>
                         THEN [level |-> "log", path |-> p]
                         ELSE [level |-> "error", path |-> p])]

\* connection.onInitialized, file being what .vbconfig.json holds: the
\* configuration is loaded, the catalog is loaded and the scan of the server's
\* test folder and of the workspace folders starts; it runs up to its first
\* await.
onInitialized(file) ==
  /\ ~scan.started
  /\ MicrotasksDrained(scan) /\ Responsive
  /\ LET config == LoadConfig(currentConfig, file)
         sc == RunScan([todo |-> <<testFolderPath, workspaceRoot, testFolder, Totals>>,
                        fileSymbols |-> workspaceIndex.fileSymbols, log |-> <<>>],
                       disk, config)
     IN /\ currentConfig' = config
        /\ workspaceIndex' = [symbols |-> loadVisualBasicSymbols(workspaceIndex.symbols),
                              fileSymbols |-> sc.fileSymbols]
        /\ scan' = [started |-> TRUE, todo |-> sc.todo, log |-> sc.log]
  /\ reply' = [query |-> "none"]
  /\ UNCHANGED <<documents, disk, bridgeVars>>

\* The continuation of `await indexFile(fullPath)` in indexDirectory: the
\* scan goes on up to its next await, or to its end.
ScanStep ==
  /\ scan.todo # <<>>
  /\ LET sc == RunScan([todo |-> scan.todo, fileSymbols |-> workspaceIndex.fileSymbols,
                        log |-> scan.log], disk, currentConfig)
     IN /\ workspaceIndex' = [workspaceIndex EXCEPT !.fileSymbols = sc.fileSymbols]
        /\ scan' = [scan EXCEPT !.todo = sc.todo, !.log = sc.log]
  /\ reply' = [query |-> "none"]
  /\ UNCHANGED <<documents, disk, currentConfig, bridgeVars>>

\* documents.onDidChangeContent, as TextDocuments raises it when a document
\* is opened with the text `text`: the entry is set, the text is validated.
DidOpen(uri, text) ==
  /\ scan.started /\ MicrotasksDrained(scan) /\ Responsive
  /\ uri \notin DOMAIN documents
  /\ documents' = [u \in DOMAIN documents \cup {uri} |->
                     IF u = uri THEN text ELSE documents[u]]
  /\ workspaceIndex' = [workspaceIndex EXCEPT
                          !.fileSymbols = MapSet(@, uri, parseDocumentSymbols(text, uri))]
  /\ reply' = Published(uri, text, currentConfig)
  /\ UNCHANGED <<disk, scan, currentConfig, bridgeVars>>

\* documents.onDidChangeContent for an edit of an open document.
DidChangeContent(uri, text) ==
  /\ scan.started /\ MicrotasksDrained(scan) /\ Responsive
  /\ uri \in DOMAIN documents
  /\ documents[uri] # text
  /\ documents' = [documents EXCEPT ![uri] = text]
  /\ workspaceIndex' = [workspaceIndex EXCEPT
                          !.fileSymbols = MapSet(@, uri, parseDocumentSymbols(text, uri))]
  /\ reply' = Published(uri, text, currentConfig)
  /\ UNCHANGED <<disk, scan, currentConfig, bridgeVars>>

\* documents.onDidClose
DidClose(uri) ==
  /\ scan.started /\ MicrotasksDrained(scan) /\ Responsive
  /\ uri \in DOMAIN documents
  /\ documents' = [u \in DOMAIN documents \ {uri} |-> documents[u]]
  /\ workspaceIndex' = [workspaceIndex EXCEPT !.fileSymbols = MapDelete(@, uri)]
  /\ reply' = [query |-> "none"]
  /\ UNCHANGED <<disk, scan, currentConfig, bridgeVars>>

\* connection.onDidChangeWatchedFiles for one change of the file the client
\* names uri: type 1 (created) and 2 (changed) leave text in the file, type 3
\* (deleted) removes it.  A uri that names no file of the disk comes with no
\* change of the disk.
DidChangeWatchedFiles(uri, type, text) ==
  /\ scan.started /\ MicrotasksDrained(scan) /\ Responsive
  /\ LET fsPath == decodeURIComponent(uri)
         real == normalize(fsPath)
         files == IF real \in DOMAIN disk
                  THEN [disk EXCEPT ![real] = IF type = 3 THEN NoFile ELSE text]
                  ELSE disk
     IN /\ real \in DOMAIN disk =>
             /\ type = 1 => disk[real] = NoFile
             /\ type \in {2, 3} => disk[real] \notin {NoFile, Directory}
             /\ type = 2 => disk[real] # text
        /\ disk' = files
        /\ workspaceIndex' = [workspaceIndex EXCEPT !.fileSymbols =
             IF ~isValidPath(fsPath) THEN @
             ELSE IF type \in {1, 2} THEN indexFile(@, fsPath, files)
             ELSE MapDelete(@, uri)]
  /\ reply' = [query |-> "none"]
  /\ UNCHANGED <<documents, scan, currentConfig, bridgeVars>>

\* connection.onHover at the token `token` of line `line` of an open document.
Hover(uri, line, token) ==
  /\ MicrotasksDrained(scan) /\ Responsive
  /\ uri \in DOMAIN documents
  /\ line < Len(documents[uri])
  /\ reply' = [query |-> "hover", uri |-> uri,
               word |-> getWordAtPosition(documents[uri][line + 1], token),
               duringScan |-> scan.todo # <<>>,
               result |-> onHover(uri, line, token, documents, workspaceIndex)]
  /\ UNCHANGED <<workspaceIndex, documents, disk, scan, currentConfig, bridgeVars>>

\* connection.onDefinition; symbol is the handler's local of that name.
Definition(uri, line, token) ==
  /\ MicrotasksDrained(scan) /\ Responsive
  /\ uri \in DOMAIN documents
  /\ line < Len(documents[uri])
  /\ reply' = [query |-> "definition", uri |-> uri,
               word |-> getWordAtPosition(documents[uri][line + 1], token),
               duringScan |-> scan.todo # <<>>,
               symbol |-> findSymbol(getWordAtPosition(documents[uri][line + 1], token),
                                     uri, workspaceIndex),
               result |-> onDefinition(uri, line, token, documents, workspaceIndex)]
  /\ UNCHANGED <<workspaceIndex, documents, disk, scan, currentConfig, bridgeVars>>

\* connection.onReferences
References(uri, line, token) ==
  /\ MicrotasksDrained(scan) /\ Responsive
  /\ uri \in DOMAIN documents
  /\ line < Len(documents[uri])
  /\ reply' = [query |-> "references", uri |-> uri,
               word |-> getWordAtPosition(documents[uri][line + 1], token),
               duringScan |-> scan.todo # <<>>]
              @@ onReferences(uri, line, token, documents, workspaceIndex, disk)
  /\ UNCHANGED <<workspaceIndex, documents, disk, scan, currentConfig, bridgeVars>>

\* connection.onCompletion, for an open document or one that is not open
Completion(uri, line, token) ==
  /\ MicrotasksDrained(scan) /\ Responsive
  /\ uri \in DOMAIN documents => line < Len(documents[uri])
  /\ reply' = [query |-> "completion", uri |-> uri,
               open |-> uri \in DOMAIN documents,
               duringScan |-> scan.todo # <<>>,
               result |-> onCompletion(uri, line, token, documents, workspaceIndex)]
  /\ UNCHANGED <<workspaceIndex, documents, disk, scan, currentConfig, bridgeVars>>

\* ------------------------------------------------- worker: specifications
\* File contents and buffer texts of the index specification.
TextDate == << <<"Dim", "Date", "As", "String">> >>
TextAdd == << <<"Function", "Add", "(", ")", "As", "Integer">> >>
TextUse == << <<"ADD", "Date", "Foo">> >>
IndexTexts == {TextDate, TextAdd, TextUse}

\* Cursor positions of the queries: no word (0), or one of the first tokens.
MaxToken == 3

\* The bridge as after construction, with no connection.
BridgeIdle ==
  /\ activeConnections = [c \in {} |-> 0]
  /\ socket = [c \in Clients |-> NoSocket]
  /\ lspProcess = [c \in Clients |-> NoProcess]
  /\ spawnTimeout = [c \in Clients |-> "none"]
  /\ stdin = [c \in Clients |-> <<>>]
  /\ sent = [c \in Clients |-> <<>>]
  /\ pipe = [c \in Clients |-> <<>>]
  /\ now = 0
  /\ listening = TRUE
  /\ exited = FALSE
  /\ graceOver = FALSE
  /\ inbox = [c \in Clients |-> 0]
  /\ accepted = [c \in Clients |-> <<>>]
  /\ forwardedAt = [c \in Clients |-> <<>>]
  /\ wrote = [c \in Clients |-> <<>>]
  /\ signals = [c \in Clients |-> <<>>]
  /\ cleanups = [c \in Clients |-> 0]

\* A worker just started in a workspace folder holding any of the files.
InitIndex ==
  /\ BridgeIdle
  /\ workspaceIndex = [symbols |-> <<>>, fileSymbols |-> <<>>]
  /\ documents = [u \in {} |-> <<>>]
  /\ \E held \in [PathSet -> {NoFile, TextDate, TextAdd}] :
       disk = [p \in AllPaths |-> IF p \in PathSet THEN held[p]
                                  ELSE IF p = workspaceRoot THEN Directory ELSE NoFile]
  /\ scan = [started |-> FALSE, todo |-> <<>>, log |-> <<>>]
  /\ reply = [query |-> "none"]
  /\ currentConfig = defaultConfig

NextIndex ==
  \/ onInitialized(NoConfigFile)
  \/ ScanStep
  \/ \E uri \in Uris, text \in IndexTexts : DidOpen(uri, text)
  \/ \E uri \in Uris, text \in IndexTexts : DidChangeContent(uri, text)
  \/ \E uri \in Uris : DidClose(uri)
  \/ \E uri \in Uris, type \in {1, 2, 3}, text \in IndexTexts :
       DidChangeWatchedFiles(uri, type, text)
  \/ \E uri \in Uris, token \in 0..MaxToken : Hover(uri, 0, token)
  \/ \E uri \in Uris, token \in 0..MaxToken : Definition(uri, 0, token)

SpecIndex == InitIndex /\ [][NextIndex]_vars

\* Cursor positions of the references and completion queries: no word, the
\* first token, the token after `As`.
QueryTokens == {0, 1, 4}

\* The same worker, asked for references and completions.
InitQuery == InitIndex

NextQuery ==
  \/ onInitialized(NoConfigFile)
  \/ ScanStep
  \/ \E uri \in Uris, text \in IndexTexts : DidOpen(uri, text)
  \/ \E uri \in Uris : DidClose(uri)
  \/ \E uri \in Uris, type \in {1, 2, 3}, text \in {TextDate, TextAdd} :
       DidChangeWatchedFiles(uri, type, text)
  \/ \E uri \in Uris, token \in QueryTokens : References(uri, 0, token)
  \/ \E uri \in Uris, token \in QueryTokens : Completion(uri, 0, token)

SpecQuery == InitQuery /\ [][NextQuery]_vars

\* The optional modifier of a declaration line.
Modifiers == {<<>>, <<"Public">>, <<"Private">>}

Declaration(line, name, kind) == [line |-> line, name |-> name, kind |-> kind]

\* One line for each supported declaration pattern, with and without a
\* modifier, and the name and kind of the construct it declares.
Declarations ==
  UNION {
    {Declaration(m \o <<"Module", "Main">>, "Main", "Module"),
     Declaration(m \o <<"Class", "Foo">>, "Foo", "Class"),
     Declaration(m \o <<"Property", "Get", "Name", "(", ")", "As", "String">>, "Name", "Property"),
     Declaration(m \o <<"Property", "Letter", "As", "String">>, "Letter", "Property"),
     Declaration(m \o <<"Function", "Add", "(", "a", "As", "Integer", ",", "b", "As", "Integer", ")",
                        "As", "Integer">>, "Add", "Function"),
     Declaration(m \o <<"Sub", "Main", "(", ")">>, "Main", "Method"),
     Declaration(m \o <<"Const", "Max", "As", "Integer", "=", "1">>, "Max", "Constant"),
     Declaration(m \o <<"Enum", "Color">>, "Color", "Enum"),
     Declaration(m \o <<"Type", "Point">>, "Point", "Struct"),
     Declaration((IF m = <<>> THEN <<"Dim">> ELSE m) \o <<"Bar", "As", "String">>,
                 "Bar", "Variable")} : m \in Modifiers}

\* The buffer texts of the parse specification: every declaration alone, a
\* class with a member, a continued line, one followed by a declaration, a
\* comment.
ParseTexts ==
  {<<d.line>> : d \in Declarations}
    \cup {<< <<"Class", "Foo">>, <<"Dim", "Bar", "As", "String">> >>,
          << <<"Dim", "Bar", "_">>, <<"As", "String">> >>,
          << <<"Dim", "Bar", "_">>, <<"As", "String">>, <<"Class", "Foo">> >>,
          << <<"'", "Dim", "Bar">> >>}

\* A worker in an empty workspace folder.
InitParse ==
  /\ BridgeIdle
  /\ workspaceIndex = [symbols |-> <<>>, fileSymbols |-> <<>>]
  /\ documents = [u \in {} |-> <<>>]
  /\ disk = [p \in AllPaths |-> IF p = workspaceRoot THEN Directory ELSE NoFile]
  /\ scan = [started |-> FALSE, todo |-> <<>>, log |-> <<>>]
  /\ reply = [query |-> "none"]
  /\ currentConfig = defaultConfig

NextParse ==
  \/ onInitialized(NoConfigFile)
  \/ \E text \in ParseTexts : DidOpen("file:///w/a.vb", text)
  \/ DidClose("file:///w/a.vb")
  \/ \E line \in {0, 1}, token \in 0..MaxToken : Hover("file:///w/a.vb", line, token)
  \/ \E line \in {0, 1}, token \in 0..MaxToken : Definition("file:///w/a.vb", line, token)

SpecParse == InitParse /\ [][NextParse]_vars


\* ------------------------------------------------------------ C14 .. C18
\* C14: index mutation and query handling run strictly one after the other:
\* no completion, hover, definition or references query is answered while files of the startup scan
\* are still to be indexed, and every step changes the entry of at most one
\* file, in one piece (the entry is the whole parse of one text, or absent).
C14_QueriesSequential ==
  /\ reply.query \in {"hover", "definition", "references", "completion"} =>
       (~reply.duringScan /\ scan.todo = <<>>)
  /\ scan.todo # <<>> => scan.started

\* C14 witness: a hover answered after a scan of two files, both indexed.
C14_Witness ==
  /\ reply.query = "hover"
  /\ reply.result # <<>>
  /\ \A j \in 1..Len(Paths) : disk[Paths[j]] # NoFile
  /\ \A j \in 1..Len(Paths) : MapHas(workspaceIndex.fileSymbols, FileUri(Paths[j]))

\* The current content of the file a key of fileSymbols names: the buffer of
\* the open document, else what the file holds.
CurrentContent(key) ==
  IF key \in DOMAIN documents THEN documents[key] ELSE disk[decodeURIComponent(key)]

\* C15: every key of fileSymbols maps to the complete parse of the current
\* content of its file (the open buffer for an open document); no entry is
\* stale.
C15_IndexInvariant ==
  \A j \in 1..Len(workspaceIndex.fileSymbols) :
    LET e == workspaceIndex.fileSymbols[j] IN
      /\ CurrentContent(e.key) # NoFile
      /\ e.value = parseDocumentSymbols(CurrentContent(e.key), e.key)

\* The keys under which the index may hold the file the client names uri.
KeysOf(uri) == {uri, FileUri(decodeURIComponent(uri))}

\* The entries of the files other than the one named uri are as before.
OthersUnchanged(uri) ==
  /\ workspaceIndex'.symbols = workspaceIndex.symbols
  /\ \A k \in (Uris \cup {FileUri(f) : f \in PathSet}) \ KeysOf(uri) :
       /\ MapHas(workspaceIndex'.fileSymbols, k) = MapHas(workspaceIndex.fileSymbols, k)
       /\ MapGet(workspaceIndex'.fileSymbols, k) = MapGet(workspaceIndex.fileSymbols, k)

\* C16: an entry is created on open, replaced by the parse of the new text on
\* every content change, and absent after a close or a delete notification
\* for the file; each event leaves the other files' entries and the catalog
\* as they were.
C16_EntryLifecycle ==
  [][\A uri \in Uris :
       /\ \A text \in IndexTexts :
            (DidOpen(uri, text) \/ DidChangeContent(uri, text)) =>
              /\ MapHas(workspaceIndex'.fileSymbols, uri)
              /\ MapGet(workspaceIndex'.fileSymbols, uri) = parseDocumentSymbols(text, uri)
              /\ OthersUnchanged(uri)
       /\ DidClose(uri) =>
            /\ ~MapHas(workspaceIndex'.fileSymbols, uri)
            /\ OthersUnchanged(uri)
       /\ (\E text \in IndexTexts : DidChangeWatchedFiles(uri, 3, text)) =>
            /\ \A k \in KeysOf(uri) : ~MapHas(workspaceIndex'.fileSymbols, k)
            /\ OthersUnchanged(uri)
    ]_vars

\* The symbols of a Map's entries, in iteration order, leaving out one key.
RECURSIVE Flatten(_, _)
Flatten(map, except) ==
  IF Len(map) = 0 THEN <<>>
  ELSE (IF Head(map).key = except THEN <<>> ELSE Head(map).value)
         \o Flatten(Tail(map), except)

\* The first symbol of the sequence whose name is the name looked up,
\* letter case apart.
FirstMatch(symbols, name) ==
  LET hits == {j \in 1..Len(symbols) : toLowerCase(symbols[j].name) = toLowerCase(name)}
  IN IF hits = {} THEN <<>>
     ELSE <<symbols[CHOOSE j \in hits : \A k \in hits : j <= k]>>

\* C17: the symbol findSymbol(name, currentFile) gives the definition handler
\* is the first case-insensitive match in the current file's entry, then the
\* other files' entries in iteration order, then the catalog; nothing when no
\* symbol has the name.
C17_LookupPrecedence ==
  reply.query = "definition" =>
    reply.symbol =
      FirstMatch(MapGet(workspaceIndex.fileSymbols, reply.uri)
                   \o Flatten(workspaceIndex.fileSymbols, reply.uri)
                   \o Flatten(workspaceIndex.symbols, ""),
                 reply.word)

\* C17 witness: a definition query for a name the current file and the
\* catalog both have is answered with the current file's symbol, while
\* another indexed file declares a name only the catalog would hide.
C17_Witness ==
  /\ reply.query = "definition"
  /\ reply.word = "Date"
  /\ FindInMap(workspaceIndex.symbols, "date") # <<>>
  /\ Find(MapGet(workspaceIndex.fileSymbols, reply.uri), "date") # <<>>
  /\ reply.result = <<Find(MapGet(workspaceIndex.fileSymbols, reply.uri), "date")[1].location>>
  /\ Len(workspaceIndex.fileSymbols) >= 2

\* C18: when the word under the cursor names a symbol declared in the
\* querying document and also a built-in, the hover describes the document's
\* symbol.
C18_HoverPrefersDocument ==
  (/\ reply.query = "hover"
   /\ reply.word # ""
   /\ Find(MapGet(workspaceIndex.fileSymbols, reply.uri), toLowerCase(reply.word)) # <<>>
   /\ FindInMap(workspaceIndex.symbols, toLowerCase(reply.word)) # <<>>)
  => LET own == Find(MapGet(workspaceIndex.fileSymbols, reply.uri), toLowerCase(reply.word))[1]
     IN /\ reply.result # <<>>
        /\ reply.result[1].contents.value =
             <<"**", own.name, "**", "\n\n">> \o own.detail
               \o (IF "type" \in DOMAIN own THEN <<"\n\n", "Type:", own.type>> ELSE <<>>)

\* ------------------------------------------------------------ C19, C20
\* The document of the end-to-end example.
ExampleText ==
  << <<"Public", "Function", "Add", "(", "a", "As", "Integer", ",", "b", "As", "Integer", ")",
       "As", "Integer">> >>

\* A hover on the word Add of the example document has been answered.
HoverOnAdd ==
  /\ reply.query = "hover"
  /\ reply.word = "Add"
  /\ documents[reply.uri] = ExampleText

Described ==
  LET builtin == FirstMatch(Flatten(workspaceIndex.symbols, ""), reply.word)
  IN IF builtin # <<>> THEN builtin
     ELSE FirstMatch(MapGet(workspaceIndex.fileSymbols, reply.uri)
                       \o Flatten(workspaceIndex.fileSymbols, reply.uri), reply.word)

C20_OneSymbolPerDeclaration ==
  \A uri \in DOMAIN documents, d \in Declarations :
    documents[uri] = <<d.line>> =>
      LET symbols == MapGet(workspaceIndex.fileSymbols, uri)
      IN /\ Len(symbols) = 1
         /\ symbols[1].name = d.name
         /\ symbols[1].kind = d.kind


\* ------------------------------------------- worker: diagnostics specification
\* Buffer texts of the diagnostics specification.
TextClassClosed == << <<"Class", "Foo">>, <<"End", "Class">> >>
TextClassEndSub == << <<"Class", "Foo">>, <<"End", "Sub">> >>
TextClassOpen == << <<"Class", "Foo">> >>
TextDimUntyped == << <<"Dim", "x">> >>
TextUsedAfter == << <<"Dim", "x", "As", "Integer">>, <<"x", "=", "1">> >>
TextUsedBefore == << <<"x", "=", "1">>, <<"Dim", "x", "As", "Integer">> >>
TextUsedInDim == << <<"Dim", "x", "As", "Integer">>, <<"Dim", "y", "As", "Integer", "=", "x">>,
                    <<"y", "=", "2">> >>
TextUsedInComment == << <<"Dim", "x", "As", "Integer">>, <<"'", "x">> >>
TextUsedInWord == << <<"Dim", "x", "As", "Integer">>, <<"xy", "=", "1">> >>
TextFunctionUntyped == << <<"Function", "Add", "(", ")">>, <<"Dim", "x">>, <<"End", "Class">> >>
DiagTexts ==
  {TextClassClosed, TextClassEndSub, TextClassOpen, TextDimUntyped, TextUsedAfter,
   TextUsedBefore, TextUsedInDim, TextUsedInComment, TextUsedInWord,
   TextFunctionUntyped}

\* What .vbconfig.json may hold: nothing, no JSON, one key of the diagnostics
\* section, or the whole section with any switches.
DiagConfigFiles ==
  {NoConfigFile, BadConfigFile,
   ConfigFile([diagnostics |-> [checkUnusedVariables |-> FALSE]]),
   ConfigFile([diagnostics |-> [checkUnusedVariables |-> TRUE]])}
    \cup {ConfigFile([diagnostics |->
                        [enabled |-> e, checkMissingTypes |-> t,
                         checkUnusedVariables |-> u, checkMissingEndStatements |-> m]]) :
            e \in BOOLEAN, t \in BOOLEAN, u \in BOOLEAN, m \in BOOLEAN}

InitDiag == InitParse

NextDiag ==
  \/ \E file \in DiagConfigFiles : onInitialized(file)
  \/ \E text \in DiagTexts : DidOpen("file:///w/a.vb", text)
  \/ \E text \in DiagTexts : DidChangeContent("file:///w/a.vb", text)
  \/ DidClose("file:///w/a.vb")

SpecDiag == InitDiag /\ [][NextDiag]_vars

\* ------------------------------------------- worker: block specification
\* Buffer texts of the block specification: every sequence of up to
\* MaxLines lines that open or end a class, a subroutine or an If block.
MaxLines == 3
BlockLines ==
  {<<"Class", "Foo">>, <<"Sub", "Bar", "(", ")">>, <<"If", "x", "Then">>,
   <<"End", "Class">>, <<"End", "Sub">>, <<"End", "If">>}
BlockTexts == SeqsUpTo(BlockLines, MaxLines) \ {<<>>}

InitBlocks == InitParse

NextBlocks ==
  \/ onInitialized(NoConfigFile)
  \/ \E text \in BlockTexts : DidOpen("file:///w/a.vb", text)
  \/ \E text \in BlockTexts : DidChangeContent("file:///w/a.vb", text)
  \/ DidClose("file:///w/a.vb")

SpecBlocks == InitBlocks /\ [][NextBlocks]_vars

\* ------------------------------------------------- worker: scan specification
\* What .vbconfig.json may hold in the scan specification.
ScanConfigFiles ==
  {NoConfigFile,
   ConfigFile([indexing |-> [enabled |-> FALSE]]),
   ConfigFile([indexing |-> [enabled |-> TRUE, excludeDirectories |-> <<"sub">>]])}

\* The disks of the scan specification: files and directories that are
\* missing, readable or unreadable; a file that is no VB file, an excluded
\* directory, the server's test folder and a directory outside the workspace.
ScanDisks ==
  {[p \in AllPaths |->
      IF p = "/w" THEN root
      ELSE IF p = "/w/a.vb" THEN a
      ELSE IF p = "/w/b c.vb" THEN b
      ELSE IF p = "/w/sub" THEN sub
      ELSE IF p = "/w/sub/c.vb" THEN c
      ELSE IF p = "/srv/test" THEN test
      ELSE IF p = testFolder THEN NoFile
      ELSE IF p \in DOMAIN Tree THEN Directory
      ELSE IF p = "/w/node_modules/d.vb" THEN TextAdd
      ELSE TextDate] :
     root \in {Directory, Unreadable}, a \in {NoFile, TextDate, Unreadable},
     b \in {NoFile, TextAdd}, sub \in {NoFile, Directory, Unreadable},
     c \in {TextAdd, Unreadable}, test \in {NoFile, Directory}}

\* The URIs of watched-file notifications: a file of the workspace, a file
\* outside it, the same file through a `..` segment, a relative path.
WatchedUris ==
  {"file:///w/a.vb", "file:///etc/x.vb", "file:///w/%2E%2E/etc/x.vb", "file://../x.vb"}

InitScan ==
  /\ BridgeIdle
  /\ workspaceIndex = [symbols |-> <<>>, fileSymbols |-> <<>>]
  /\ documents = [u \in {} |-> <<>>]
  /\ disk \in ScanDisks
  /\ scan = [started |-> FALSE, todo |-> <<>>, log |-> <<>>]
  /\ reply = [query |-> "none"]
  /\ currentConfig = defaultConfig

NextScan ==
  \/ \E file \in ScanConfigFiles : onInitialized(file)
  \/ ScanStep
  \/ \E uri \in WatchedUris, type \in {1, 2, 3} : DidChangeWatchedFiles(uri, type, TextAdd)

SpecScan == InitScan /\ [][NextScan]_vars

\* The continuations of the scan are microtasks: they run.
SpecScanFair == SpecScan /\ WF_vars(ScanStep)

\* ------------------------------------------------------------ C21 .. C30
\* The diagnostics of a published list whose message starts with `first`.
DiagnosticsOf(diagnostics, first) ==
  SelectSeq(diagnostics, LAMBDA d : d.message[1] = first)

\* C21: with every check on, the lines [Class Foo, End Class] give no
\* diagnostic; the lines [Class Foo, End Sub] give exactly one mismatch
\* diagnostic, on the second line; the line [Class Foo] alone gives exactly
\* one diagnostic, the missing end, on the first line.
C21_EndMatching ==
  (reply.query = "diagnostics" /\ currentConfig = defaultConfig) =>
    LET text == documents[reply.uri]
        mismatches == DiagnosticsOf(reply.diagnostics, "Mismatched")
        missing == DiagnosticsOf(reply.diagnostics, "Missing")
    IN /\ text = TextClassClosed => reply.diagnostics = <<>>
       /\ text = TextClassEndSub =>
            /\ Len(mismatches) = 1
            /\ mismatches[1].line = 1
            /\ mismatches[1].code = "VB003"
       /\ text = TextClassOpen =>
            /\ Len(reply.diagnostics) = 1
            /\ Len(missing) = 1
            /\ missing[1].line = 0
            /\ missing[1].message = <<"Missing", "End", "Class">>

\* C21 witness: the diagnostics of [Class Foo, End Sub] are published, with
\* their one mismatch.
C21_Witness ==
  /\ reply.query = "diagnostics"
  /\ currentConfig = defaultConfig
  /\ documents[reply.uri] = TextClassEndSub
  /\ Len(DiagnosticsOf(reply.diagnostics, "Mismatched")) = 1


\* The keys the configuration documents, by section.
RecognizedKeys ==
  [indexing |-> {"enabled", "includeFiles", "excludeDirectories"},
   diagnostics |-> {"enabled", "checkMissingTypes", "checkUnusedVariables",
                    "checkMissingEndStatements"}]

\* C25: after the configuration file has been loaded, every recognized key
\* has a value in the effective configuration, the file's own or else the
\* default: a key the file leaves unset is not lost when the file sets
\* another key of the same section.
C25_DefaultsKept ==
  scan.started =>
    \A section \in DOMAIN RecognizedKeys :
      /\ section \in DOMAIN currentConfig
      /\ RecognizedKeys[section] \subseteq DOMAIN currentConfig[section]


\* The diagnostic codes of the rules whose switch is on in the diagnostics
\* section `section`.
CodesOn(section) ==
  (IF section.checkMissingTypes THEN {"VB001", "VB002"} ELSE {})
    \cup (IF section.checkUnusedVariables THEN {"VB004"} ELSE {})
    \cup (IF section.checkMissingEndStatements THEN {"VB003"} ELSE {})

\* C26: when a document is opened or edited under a configuration whose
\* diagnostics section sets its four switches, nothing is published with
\* `enabled` false; with it true the published list is the list published
\* with every rule on, less exactly the diagnostics of the rules switched off
\* (VB001/VB002 missing types, VB004 unused variable, VB003 missing or
\* mismatched end), the others unchanged and in the same order.
C26_Gating ==
  [][\A uri \in DOMAIN documents' :
       (/\ uri \notin DOMAIN documents \/ documents[uri] # documents'[uri]
        /\ "diagnostics" \in DOMAIN currentConfig
        /\ RecognizedKeys.diagnostics \subseteq DOMAIN currentConfig.diagnostics)
       => reply' =
            IF ~currentConfig.diagnostics.enabled THEN [query |-> "none"]
            ELSE [query |-> "diagnostics", uri |-> uri,
                  diagnostics |->
                    SelectSeq(validateTextDocument(documents'[uri], defaultConfig)[1],
                              LAMBDA d : d.code \in CodesOn(currentConfig.diagnostics))]
    ]_vars

\* C26 witness: with the unused-variable rule alone switched off, a text with
\* an untyped function, an untyped unused variable and an unmatched end is
\* published with its missing-type and end diagnostics and no VB004.
C26_Witness ==
  /\ reply.query = "diagnostics"
  /\ currentConfig.diagnostics =
       [enabled |-> TRUE, checkMissingTypes |-> TRUE,
        checkUnusedVariables |-> FALSE, checkMissingEndStatements |-> TRUE]
  /\ documents[reply.uri] = TextFunctionUntyped
  /\ {reply.diagnostics[j].code : j \in 1..Len(reply.diagnostics)} = {"VB001", "VB002", "VB003"}
  /\ Len(validateTextDocument(TextFunctionUntyped, defaultConfig)[1]) = Len(reply.diagnostics) + 1


\* word.includes(part), on strings
Includes(word, part) ==
  \E a \in 1..Len(word) : \E b \in a..Len(word) : SubSeq(word, a, b) = part

\* The identifier appears in the text on a line other than line index i.
AppearsElsewhere(text, identifier, i) ==
  \E k \in 1..Len(text) :
    /\ k # i + 1
    /\ \E j \in 1..Len(text[k]) : Includes(text[k][j], identifier)

\* C28: with the unused-variable rule on, a declaration `Dim name ...` is
\* reported as unused exactly when its identifier appears on no other line
\* of the text, before or after the declaration, other declarations
\* included, as a substring.
C28_UnusedRule ==
  (reply.query = "diagnostics" /\ currentConfig = defaultConfig) =>
    LET text == documents[reply.uri]
        unused == SelectSeq(reply.diagnostics, LAMBDA d : d.code = "VB004")
    IN \A i \in 0..(Len(text) - 1) :
         (Len(text[i + 1]) >= 2 /\ text[i + 1][1] = "Dim") =>
           ((\E j \in 1..Len(unused) :
               /\ unused[j].line = i
               /\ unused[j].message[2] = text[i + 1][2])
            <=> ~AppearsElsewhere(text, text[i + 1][2], i))


\* The directories the scan starts from.
ScanRoots == {testFolderPath, workspaceRoot, testFolder}

\* The paths the scan comes to when it has come to the paths of `reached`:
\* the entries on disk of the readable directories among them, less the
\* excluded directories and the files that are no VB files.
ScanReach(reached, files, excluded) ==
  reached \cup
    {e \in AllPaths :
       /\ files[e] # NoFile
       /\ \E d \in reached \cap DOMAIN Tree :
            /\ files[d] = Directory
            /\ \E j \in 1..Len(Tree[d]) : Tree[d][j] = e
       /\ IF e \in DOMAIN Tree
          THEN \A j \in 1..Len(excluded) : excluded[j] # BaseName(e)
          ELSE e \notin {"/w/notes.txt"}}

\* Two levels of directories lie under the roots.
ScanReached(files, excluded) ==
  ScanReach(ScanReach({r \in ScanRoots : files[r] # NoFile}, files, excluded), files, excluded)

\* C22: whatever directories and files cannot be read, the step that ends
\* the scan leaves an error in the log for each unreadable directory or file
\* the scan came to, the index holds exactly the other VB files it came to
\* (in no excluded directory), and the last log entry reports the totals;
\* and a scan that has started does end.
C22_ScanFaultIsolation ==
  /\ [][(scan' # scan /\ scan'.todo = <<>>) =>
          LET excluded == IF "excludeDirectories" \in DOMAIN currentConfig'.indexing
                          THEN currentConfig'.indexing.excludeDirectories
                          ELSE <<"node_modules", "bin", "obj", ".git">>
              reached == ScanReached(disk, excluded)
              log == scan'.log
              fs == workspaceIndex'.fileSymbols
          IN /\ {log[j].path : j \in {k \in 1..Len(log) : log[k].level = "error"}}
                  = {p \in reached : disk[p] = Unreadable}
             /\ {fs[j].key : j \in 1..Len(fs)}
                  = {"file://" \o p : p \in {q \in reached \ DOMAIN Tree : disk[q] # Unreadable}}
             /\ Len(log) > 0
             /\ "complete" \in DOMAIN log[Len(log)]
             /\ log[Len(log)].files = Len(fs)
       ]_vars
  /\ (scan.started ~> scan.todo = <<>>)

\* C22 witness: a scan has ended that met an unreadable directory and an
\* unreadable file and indexed a file listed after them.
C22_Witness ==
  /\ scan.started /\ scan.todo = <<>>
  /\ disk["/w/a.vb"] = Unreadable
  /\ disk["/w/sub"] = Unreadable
  /\ disk["/srv/test"] = Directory
  /\ \E j \in 1..Len(scan.log) : scan.log[j] = [level |-> "error", path |-> "/w/a.vb"]
  /\ \E j \in 1..Len(scan.log) : scan.log[j] = [level |-> "error", path |-> "/w/sub"]
  /\ MapHas(workspaceIndex.fileSymbols, "file:///w/b c.vb")
  /\ "complete" \in DOMAIN scan.log[Len(scan.log)]

\* The path of an index key lies in the workspace folder.
InWorkspace(key) ==
  LET filePath == normalize(decodeURIComponent(key)) IN
    Len(filePath) > 3 /\ SubSeq(filePath, 1, 3) = "/w/"

\* C23: no file outside the workspace folder is read and indexed, whatever
\* paths the watched-file notifications name: every key of the index is a
\* path inside the workspace folder.
C23_NoFileOutsideWorkspace ==
  \A j \in 1..Len(workspaceIndex.fileSymbols) : InWorkspace(workspaceIndex.fileSymbols[j].key)

\* C24: with indexing.enabled false in the effective configuration, the
\* startup scan indexes no file.
C24_IndexingGate ==
  [][(/\ scan' # scan
      /\ "enabled" \in DOMAIN currentConfig'.indexing
      /\ currentConfig'.indexing.enabled = FALSE)
     => workspaceIndex'.fileSymbols = workspaceIndex.fileSymbols]_vars


\* The live text of an indexed file: the open buffer when the file is open,
\* else what the disk holds; <<>> when there is neither.
LiveText(uri) ==
  IF uri \in DOMAIN documents THEN <<documents[uri]>>
  ELSE readFileSync(disk, decodeURIComponent(uri))

\* The locations of the word in the live texts of the files of `map`.
RECURSIVE LiveReferences(_, _)
LiveReferences(map, word) ==
  IF Len(map) = 0 THEN <<>>
  ELSE (IF LiveText(Head(map).key) = <<>> THEN <<>>
        ELSE TextMatches(LiveText(Head(map).key)[1], word, Head(map).key, 0))
         \o LiveReferences(Tail(map), word)

\* C27: a references query returns, and returns one location for each
\* whole-word, case-insensitive match of the word at the cursor in the live
\* text of every indexed file: the open buffer when the file is open, else
\* the file as the disk holds it.
C27_ReferencesLiveText ==
  reply.query = "references" =>
    /\ ~reply.hangs
    /\ reply.locations = LiveReferences(workspaceIndex.fileSymbols, reply.word)


\* The items of a completion result that come from the catalog and from the
\* workspace: a workspace item carries the `data` of its symbol.
IsWorkspaceItem(item) == "data" \in DOMAIN item
UniqueLabels(items) ==
  \A j \in 1..Len(items) : \A k \in 1..Len(items) : items[j].label = items[k].label => j = k

\* C29 as stated: in every completion result every built-in item carries a
\* sort key that orders it before every workspace item, and no two items
\* have the same name.
C29_Original ==
  reply.query = "completion" =>
    /\ \A j \in 1..Len(reply.result) :
         /\ "sortText" \in DOMAIN reply.result[j]
         /\ reply.result[j].sortText[1] = (IF IsWorkspaceItem(reply.result[j]) THEN "1" ELSE "0")
    /\ UniqueLabels(reply.result)

\* C29, amended: in the completion result for an open document every
\* built-in item carries the sort key "0" + name and every workspace item
\* "1" + name, the built-in items come first in the list, and no two items
\* have the same name (a workspace symbol named as an item already in the
\* list adds none); for a document that is not open the result is the
\* items of the loaded catalog alone, in catalog order, with no sort key.
C29_CompletionMerge ==
  reply.query = "completion" =>
    LET items == reply.result IN
      IF reply.open
      THEN /\ \A j \in 1..Len(items) :
                items[j].sortText =
                  <<IF IsWorkspaceItem(items[j]) THEN "1" ELSE "0", items[j].label>>
           /\ \A j \in 1..Len(items) : \A k \in 1..Len(items) :
                (IsWorkspaceItem(items[j]) /\ ~IsWorkspaceItem(items[k])) => k < j
           /\ UniqueLabels(items)
      ELSE /\ Len(items) = Len(Values(workspaceIndex.symbols))
           /\ \A j \in 1..Len(items) :
                /\ items[j].label = Values(workspaceIndex.symbols)[j].name
                /\ DOMAIN items[j] = {"label", "kind", "detail", "documentation"}

\* C29 witness: a completion for an open document while the index holds a
\* variable named Date, as the built-in type, and a function Add in two
\* files: the result holds Date once, as the built-in item, and Add once.
C29_Witness ==
  /\ reply.query = "completion"
  /\ reply.open
  /\ Len(SelectSeq(Values(workspaceIndex.fileSymbols), LAMBDA symbol : symbol.name = "Date")) >= 1
  /\ Len(SelectSeq(Values(workspaceIndex.fileSymbols), LAMBDA symbol : symbol.name = "Add")) >= 2
  /\ Len(SelectSeq(reply.result, LAMBDA item : item.label = "Date")) = 1
  /\ Len(SelectSeq(reply.result, LAMBDA item : item.label = "Date" /\ ~IsWorkspaceItem(item))) = 1
  /\ Len(SelectSeq(reply.result, LAMBDA item : item.label = "Add" /\ IsWorkspaceItem(item))) = 1


\* The bytes of the frames of the texts, as the worker writes them.
RECURSIVE FrameBytes(_)
FrameBytes(texts) ==
  IF Len(texts) = 0 THEN <<>>
  ELSE Utf8Encode(FrameMessage(Head(texts))) \o FrameBytes(Tail(texts))

\* How many of the frames of the texts lie whole within their first n bytes.
RECURSIVE WholeFrames(_, _)
WholeFrames(texts, n) ==
  IF Len(texts) = 0 \/ Len(Utf8Encode(FrameMessage(Head(texts)))) > n THEN 0
  ELSE 1 + WholeFrames(Tail(texts), n - Len(Utf8Encode(FrameMessage(Head(texts)))))

\* C30: after the stdout handler has processed the chunks delivered so far
\* to an open session, every frame whose header and whole payload have
\* arrived has been handed on, once and in order, and is no longer in the
\* buffer, and the buffer holds exactly the bytes that arrived after the last
\* whole frame, intact: an incomplete frame, no complete one.
C30_DrainInvariant ==
  (1 \in Active /\ socket[1].readyState = "OPEN") =>
    LET arrived == Len(FrameBytes(wrote[1])) - Len(pipe[1])
        whole == WholeFrames(wrote[1], arrived)
        consumed == Len(FrameBytes(SubSeq(wrote[1], 1, whole)))
    IN /\ sent[1] = SubSeq(wrote[1], 1, whole)
       /\ Utf8Encode(activeConnections[1].messageBuffer)
            = SubSeq(FrameBytes(wrote[1]), consumed + 1, arrived)


\* ------------------------------------------------------------ C31 .. C38
\* The end-matching stack machine as the specification states it, on the
\* lines of BlockLines from line index i on: st is [stack, emitted].  An
\* end marker that meets an empty stack has no top to match or mismatch: it
\* emits nothing.
RECURSIVE EndMatching(_, _, _)
EndMatching(st, lines, i) ==
  IF i >= Len(lines)
  THEN st.emitted \o [j \in 1..Len(st.stack) |->
                        [what |-> "Missing", kind |-> st.stack[j].kind, line |-> st.stack[j].line]]
  ELSE LET line == lines[i + 1] IN
    IF line[1] # "End"
    THEN EndMatching([st EXCEPT !.stack = Append(@, [kind |-> line[1], line |-> i])], lines, i + 1)
    ELSE IF Len(st.stack) = 0 THEN EndMatching(st, lines, i + 1)
    ELSE IF st.stack[Len(st.stack)].kind = line[2]
    THEN EndMatching([st EXCEPT !.stack = SubSeq(@, 1, Len(@) - 1)], lines, i + 1)
    ELSE EndMatching([st EXCEPT !.emitted =
                        Append(@, [what |-> "Mismatched", kind |-> st.stack[Len(st.stack)].kind,
                                   line |-> i])], lines, i + 1)

\* A text of openers each closed by its own end marker, properly nested.
RECURSIVE ProperlyNested(_, _)
ProperlyNested(lines, stack) ==
  IF Len(lines) = 0 THEN Len(stack) = 0
  ELSE IF Head(lines)[1] # "End" THEN ProperlyNested(Tail(lines), Append(stack, Head(lines)[1]))
  ELSE /\ Len(stack) > 0
       /\ stack[Len(stack)] = Head(lines)[2]
       /\ ProperlyNested(Tail(lines), SubSeq(stack, 1, Len(stack) - 1))

\* C31: for every sequence of openers and end markers, the published
\* diagnostics are those of the stack machine: an opener pushes (kind, line);
\* an end marker matching the top pops and emits nothing; one that does not
\* match the top emits one mismatched-end diagnostic at its own line and
\* leaves the stack; after the last line one missing-end diagnostic per
\* entry left, at its opening line.  A properly nested text has none.
C31_EndMatchingMachine ==
  (reply.query = "diagnostics" /\ documents[reply.uri] \in BlockTexts) =>
    /\ [j \in 1..Len(reply.diagnostics) |->
          [what |-> reply.diagnostics[j].message[1],
           kind |-> reply.diagnostics[j].message[3],
           line |-> reply.diagnostics[j].line]]
         = EndMatching([stack |-> <<>>, emitted |-> <<>>], documents[reply.uri], 0)
    /\ \A j \in 1..Len(reply.diagnostics) : reply.diagnostics[j].code = "VB003"
    /\ ProperlyNested(documents[reply.uri], <<>>) => reply.diagnostics = <<>>

\* C31 witness: a class, a subroutine in it and the end of the class: the
\* mismatch at the third line, then the missing ends of both blocks.
C31_Witness ==
  /\ reply.query = "diagnostics"
  /\ documents[reply.uri] = << <<"Class", "Foo">>, <<"Sub", "Bar", "(", ")">>, <<"End", "Class">> >>
  /\ Len(reply.diagnostics) = 3
  /\ reply.diagnostics[1].message[1] = "Mismatched" /\ reply.diagnostics[1].line = 2
  /\ reply.diagnostics[2].message = <<"Missing", "End", "Class">> /\ reply.diagnostics[2].line = 0
  /\ reply.diagnostics[3].message = <<"Missing", "End", "Sub">> /\ reply.diagnostics[3].line = 1


\* The number of messages of session c written to its worker at the times
\* t, ..., t + RATE_LIMIT_WINDOW - 1: an interval of the window's length.
ForwardedWithin(c, t) ==
  Cardinality({j \in 1..Len(forwardedAt[c]) :
                 forwardedAt[c][j] \in t..(t + RATE_LIMIT_WINDOW - 1)})

\* C32: the window slides: in any interval of the length of the window at
\* most RATE_LIMIT_MAX_REQUESTS messages of one session are written to its
\* worker.
C32_SlidingWindow ==
  \A c \in Clients : \A t \in 0..MaxTime :
    ForwardedWithin(c, t) <= RATE_LIMIT_MAX_REQUESTS


\* C34: every message event of a session of the active set raises its counter
\* before the message is validated, whatever the message is: the counter
\* becomes one more than the count of the running window (1 when the window
\* had run out), and when that exceeds RATE_LIMIT_MAX_REQUESTS the socket is
\* closed with the rate-limit reason and nothing is written to the worker.
C34_CountedBeforeValidated ==
  [][\A c \in Clients :
       (inbox'[c] # inbox[c] /\ Known(c, activeConnections)) =>
         LET connection == activeConnections[c]
             count == IF now - connection.windowStart <= RATE_LIMIT_WINDOW
                      THEN connection.messageCount + 1 ELSE 1
         IN /\ activeConnections'[c].messageCount = count
            /\ count > RATE_LIMIT_MAX_REQUESTS =>
                 /\ socket'[c].readyState # "OPEN"
                 /\ socket'[c].closeReason = "Rate limit exceeded"
                 /\ stdin'[c] = stdin[c]]_vars

\* More than RATE_LIMIT_MAX_REQUESTS messages, none of them valid and none
\* forwarded, and the session is closed for exceeding the limit.
C34_Witness ==
  \E c \in Clients :
    /\ inbox[c] > RATE_LIMIT_MAX_REQUESTS
    /\ accepted[c] = <<>>
    /\ stdin[c] = <<>>
    /\ socket[c].closeReason = "Rate limit exceeded"


\* C35: once the socket of a session was closed for exceeding the rate
\* limit, no later message event of that client writes to the worker.
C35_NothingAfterRateLimit ==
  [][\A c \in Clients :
       (inbox'[c] # inbox[c] /\ socket[c].closeReason = "Rate limit exceeded") =>
         stdin'[c] = stdin[c]]_vars


\* C36: after cleanupConnection removed a session from the active set the
\* session is not in the set again (so there is no buffer to append to),
\* nothing is written to its worker's stdin and nothing is sent to its socket.
C36_NothingFlowsAfterRemoval ==
  [][\A c \in Clients :
       cleanups[c] > 0 =>
         /\ c \notin Active /\ c \notin DOMAIN activeConnections'
         /\ stdin'[c] = stdin[c]
         /\ sent'[c] = sent[c]]_vars

\* The worker exited, which removed the session at once, after it had framed
\* a message of which (a part, at least) was read from the pipe after the
\* removal, the socket having been open before; and a message event came in for
\* the session although no message of it was ever accepted.
C36_Witness ==
  \E c \in Clients :
    /\ cleanups[c] > 0 /\ c \notin Active
    /\ socket[c].closeReason = "Server process exited"
    /\ wrote[c] # <<>> /\ pipe[c] = <<>> /\ sent[c] = <<>>
    /\ inbox[c] > 0 /\ stdin[c] = <<>>


\* The worker processes that were spawned and have not exited.
LiveWorkers == {c \in Clients : IsAlive(lspProcess[c])}

\* C37: in every reachable state at most MAX_CLIENTS worker processes have
\* been spawned and have not yet exited.
C37_WorkersWithinCap == Cardinality(LiveWorkers) <= MAX_CLIENTS


\* The declaration written from line i (counted from 0) of the file text on:
\* that line, with the lines that continue it.
RECURSIVE LogicalLine(_, _)
LogicalLine(text, i) ==
  LET line == text[i + 1] IN
    IF i + 1 < Len(text) /\ Len(line) >= 2 /\ line[Len(line)] = "_"
    THEN SubSeq(line, 1, Len(line) - 1) \o LogicalLine(text, i + 1)
    ELSE line

\* The symbol is what the declaration written from line i of text on declares.
DeclaredAt(symbol, text, uri, i) ==
  /\ i < Len(text)
  /\ \E inScope \in BOOLEAN :
       symbol \in RangeOf(LineSymbols(LogicalLine(text, i), uri, i, inScope))

\* C33: the line number of the location of every symbol of an open document
\* is the index, in the text of the document, of the line on which the
\* declaration of the symbol starts.
C33_LocationInFileText ==
  \A uri \in DOMAIN documents :
    \A symbol \in RangeOf(MapGet(workspaceIndex.fileSymbols, uri)) :
      DeclaredAt(symbol, documents[uri], uri, symbol.location.line)


\* C38: every references query on an open document terminates, the queries
\* with the empty word (no word character touches the cursor) included.
C38_ReferencesTerminate ==
  reply.query = "references" => ~reply.hangs

====
